---------------------------- MODULE Spec2Model ----------------------------
(***************************************************************************)
(* A model of the DNS message codec and UDP server of dns_from_scratch.    *)
(*                                                                         *)
(* Bytes are naturals 0..255, buffers (Bytes, BytesMut, &[u8]) and strings *)
(* are sequences of bytes, u16 values are naturals below 65536.  Every     *)
(* fallible operation returns a record whose field outcome is "ok", "err"  *)
(* (an anyhow::Error returned through Result) or "panic" (an index or      *)
(* slice out of bounds, which unwinds the calling task).                   *)
(***************************************************************************)
EXTENDS Naturals, Sequences, FiniteSets

VARIABLES
    \* the header round trips
    h_pc, h_in, h_bytes, h_out, h_back,
    \* a message buffer being written name by name and decoded front to back
    d_pc,       \* "idle", "run" or "failed"
    d_start,    \* the position of the first name in the buffer
    d_share,    \* TRUE when decode is handed the encoder's map
    d_buf,      \* the buffer so far
    d_names,    \* the names written, as label sequences
    d_enc,      \* per name written: [at, bytes], and the map before and after
    d_truth,    \* offset of each label written -> the labels from it to the end
    e_map,      \* the label map of the encoder
    d_cur,      \* the cursor of the decoder
    d_map,      \* the label map of the decoder
    d_dec,      \* per name decoded: [outcome, cursor, value, written]
    \* the record codecs: one input, encoded and then parsed
    r_pc,       \* "idle", or the kind of input and how far it has come
    r_in,       \* the input: a domain string, an answer set, a message
    r_num,      \* the declared count handed to a record-set encoder
    r_out,      \* the encoder's result: [outcome, bytes]
    r_parsed,   \* what parsing the bytes gave
    \* the server: a socket, the receive loop, the datagrams it sent
    s_pc,       \* "recv" in the loop, "returned" after Err, "panicked"
    s_inbox,    \* datagrams delivered to the socket, not yet received
    s_log,      \* per datagram received: what the loop made of it
    \* one call of a reader or a conversion on one input
    p_pc,       \* "buffer", "number" or "field" before the call, then the function called
    p_buf,      \* the buffer handed to the reader
    p_pos,      \* the offset handed to the reader
    p_arg,      \* the length, the count, the 16-bit number, or the name of a field
    p_out,      \* what the call returned
    \* names encoded one after another far into a long message
    f_pos,      \* the length of the message so far: the next pos
    f_map,      \* the label map of the message
    f_calls,    \* per Domain::encode call: pos, labels, result, map before
    \* one call of Domain::decode, iteration by iteration of its loop
    l_pc,       \* "idle", "loop" inside the loop, then "ok", "err" or "panic"
    l_buf,      \* the buffer
    l_in,       \* the arguments: [pos, label_map]
    l_cur,      \* current
    l_offsets,  \* offsets: the (label, offset) pairs read so far
    l_map,      \* the label map
    l_out       \* what the call returned: [cursor, value]

headerVars == <<h_pc, h_in, h_bytes, h_out, h_back>>

domainVars ==
    <<d_pc, d_start, d_share, d_buf, d_names, d_enc, d_truth, e_map, d_cur, d_map, d_dec>>

recordVars == <<r_pc, r_in, r_num, r_out, r_parsed>>

serverVars == <<s_pc, s_inbox, s_log>>

readerVars == <<p_pc, p_buf, p_pos, p_arg, p_out>>

farVars == <<f_pos, f_map, f_calls>>

loopVars == <<l_pc, l_buf, l_in, l_cur, l_offsets, l_map, l_out>>

vars == <<headerVars, domainVars, recordVars, serverVars, readerVars, farVars, loopVars>>

-----------------------------------------------------------------------------
(* Bytes and bit fields *)

Byte == 0..255

\* x >> k on unsigned integers
Shr(x, k) == x \div (2 ^ k)

\* (x >> k) & (2^w - 1)
Bits(x, k, w) == (x \div (2 ^ k)) % (2 ^ w)

\* u16::to_be_bytes / BufMut::put_u16
U16Bytes(x) == << (x \div 256) % 256, x % 256 >>

\* u16::from_be_bytes
U16From(hi, lo) == hi * 256 + lo

\* u32::to_be_bytes / BufMut::put_u32
U32Bytes(x) ==
    << (x \div 16777216) % 256, (x \div 65536) % 256, (x \div 256) % 256, x % 256 >>

Ok(cursor, value) == [outcome |-> "ok", cursor |-> cursor, value |-> value]
Err == [outcome |-> "err", cursor |-> 0, value |-> <<>>]
Panic == [outcome |-> "panic", cursor |-> 0, value |-> <<>>]

-----------------------------------------------------------------------------
(* The header codec: src/dns/header.rs (DnsData for DnsHeader) and the     *)
(* older free-standing pair of src/dns/dns.rs (write_header, parse_header) *)

DnsHeaderDefault ==
    [ packet_id |-> 0, query_type |-> "Query", opcode |-> 0,
      auth_answer |-> FALSE, truncation |-> FALSE, recursion_desired |-> FALSE,
      recursion_available |-> FALSE, reserved |-> 0, response_code |-> 0,
      question_count |-> 0, answer_record_count |-> 0,
      authority_record_count |-> 0, additional_record_count |-> 0 ]

\* byte2: QR, Opcode, AA, TC, RD
HeaderByte2(h) ==
    (IF h.query_type = "Response" THEN 128 ELSE 0)
    + ((h.opcode % 16) * 8)
    + (IF h.auth_answer THEN 4 ELSE 0)
    + (IF h.truncation THEN 2 ELSE 0)
    + (IF h.recursion_desired THEN 1 ELSE 0)

\* byte3: RA, Reserved, RCODE
HeaderByte3(h) ==
    (IF h.recursion_available THEN 128 ELSE 0)
    + ((h.reserved % 8) * 16)
    + (h.response_code % 16)

\* a plausible slip: the opcode shifted by 4 instead of 3 (it then collides
\* with QR and loses its top bit in the u8)
HeaderByte2_OpcodeShift4(h) ==
    ( (IF h.query_type = "Response" THEN 128 ELSE 0)
      + (((h.opcode % 16) * 16) % 256)
      + (IF h.auth_answer THEN 4 ELSE 0)
      + (IF h.truncation THEN 2 ELSE 0)
      + (IF h.recursion_desired THEN 1 ELSE 0) ) % 256

HeaderBytes(h, b2, b3) ==
    U16Bytes(h.packet_id) \o << b2, b3 >>
    \o U16Bytes(h.question_count) \o U16Bytes(h.answer_record_count)
    \o U16Bytes(h.authority_record_count) \o U16Bytes(h.additional_record_count)

DnsHeader_encode_OpcodeShift4(h) == HeaderBytes(h, HeaderByte2_OpcodeShift4(h), HeaderByte3(h))

DnsHeader_encode(h) == HeaderBytes(h, HeaderByte2(h), HeaderByte3(h))

write_header(h) == HeaderBytes(h, HeaderByte2(h), HeaderByte3(h))

\* the fields read at the fixed offsets 0..11 (Rust indices; buf[i+1] here)
HeaderFields(buf) ==
    [ packet_id |-> U16From(buf[1], buf[2]),
      query_type |-> IF Shr(buf[3], 7) = 0 THEN "Query" ELSE "Response",
      opcode |-> Bits(buf[3], 3, 4),
      auth_answer |-> Bits(buf[3], 2, 1) = 1,
      truncation |-> Bits(buf[3], 1, 1) = 1,
      recursion_desired |-> Bits(buf[3], 0, 1) = 1,
      recursion_available |-> Bits(buf[4], 7, 1) = 1,
      reserved |-> Bits(buf[4], 4, 3),
      response_code |-> Bits(buf[4], 0, 4),
      question_count |-> U16From(buf[5], buf[6]),
      answer_record_count |-> U16From(buf[7], buf[8]),
      authority_record_count |-> U16From(buf[9], buf[10]),
      additional_record_count |-> U16From(buf[11], buf[12]) ]

\* DnsHeader::decode indexes buf[0..2], buf[2], ... buf[10..12] whatever pos
\* is, and returns pos + 12; an index past the end of the buffer panics.  The
\* `x =>` arms of its matches are unreachable (a one-bit value is 0 or 1).
DnsHeader_decode(buf, pos) ==
    IF Len(buf) < 12 THEN Panic ELSE Ok(pos + 12, HeaderFields(buf))

\* parse_header of dns.rs: the same reads, no cursor
parse_header(buf) ==
    IF Len(buf) < 12 THEN Panic ELSE Ok(0, HeaderFields(buf))

-----------------------------------------------------------------------------
(* Primitive readers: src/parse/parse.rs.  Bytes::slice(a..b) panics when  *)
(* b exceeds the buffer length (or a > b); the try_into that follows       *)
(* cannot fail on a slice of the right length.                             *)

parse_u8(buf, pos) ==
    IF pos + 1 > Len(buf) THEN Panic ELSE Ok(pos + 1, buf[pos + 1])

parse_u16(buf, pos) ==
    IF pos + 2 > Len(buf) THEN Panic
    ELSE Ok(pos + 2, U16From(buf[pos + 1], buf[pos + 2]))

parse_u32(buf, pos) ==
    IF pos + 4 > Len(buf) THEN Panic
    ELSE Ok(pos + 4, ((buf[pos + 1] * 256 + buf[pos + 2]) * 256 + buf[pos + 3]) * 256
                        + buf[pos + 4])

parse_data(buf, pos, len) ==
    IF pos + len > Len(buf) THEN Panic
    ELSE Ok(pos + len, SubSeq(buf, pos + 1, pos + len))

IsCont(b) == b >= 128 /\ b <= 191

\* String::from_utf8: the well-formed byte sequences of UTF-8
RECURSIVE Utf8Valid(_)
Utf8Valid(s) ==
    IF s = <<>> THEN TRUE
    ELSE LET b == s[1]
             n == Len(s)
             need == IF b < 128 THEN 1
                     ELSE IF b >= 194 /\ b <= 223 THEN 2
                     ELSE IF b >= 224 /\ b <= 239 THEN 3
                     ELSE IF b >= 240 /\ b <= 244 THEN 4
                     ELSE 0
         IN  /\ need > 0
             /\ n >= need
             /\ \A i \in 2..need : IsCont(s[i])
             /\ (b = 224 => s[2] >= 160)
             /\ (b = 237 => s[2] <= 159)
             /\ (b = 240 => s[2] >= 144)
             /\ (b = 244 => s[2] <= 143)
             /\ Utf8Valid(SubSeq(s, need + 1, n))

\* ensure!(length <= 0x3fff) of parse_string
StringLimit == 16383

\* a plausible slip: the new cursor counted from pos, not from the cursor
\* after the length field
parse_string_CursorFromPos(buf, pos) ==
    LET l == parse_u16(buf, pos) IN
    IF l.outcome # "ok" THEN l
    ELSE IF l.value > StringLimit THEN Err
    ELSE IF l.cursor + l.value > Len(buf) THEN Panic
    ELSE LET s == SubSeq(buf, l.cursor + 1, l.cursor + l.value) IN
         IF Utf8Valid(s) THEN Ok(pos + l.value, s) ELSE Err

\* parse_string: a u16 length, at most 0x3fff, then that many bytes of UTF-8
parse_string(buf, pos) ==
    LET l == parse_u16(buf, pos) IN
    IF l.outcome # "ok" THEN l
    ELSE IF l.value > StringLimit THEN Err
    ELSE IF l.cursor + l.value > Len(buf) THEN Panic
    ELSE LET s == SubSeq(buf, l.cursor + 1, l.cursor + l.value) IN
         IF Utf8Valid(s) THEN Ok(l.cursor + l.value, s) ELSE Err

-----------------------------------------------------------------------------
(* Strings and the label map: label.rs keys a HashMap<String, usize> by    *)
(* the labels joined with '.'                                              *)

Dot == 46

EmptyMap == [k \in {} |-> 0]

\* HashMap::insert
MapInsert(m, k, v) == [x \in (DOMAIN m) \cup {k} |-> IF x = k THEN v ELSE m[x]]

\* labels.iter().skip(i - 1).collect::<Vec<&str>>().join(".")
RECURSIVE Join(_, _)
Join(labels, i) ==
    IF i > Len(labels) THEN <<>>
    ELSE IF i = Len(labels) THEN labels[i]
    ELSE labels[i] \o <<Dot>> \o Join(labels, i + 1)

\* str::split("."): "" gives [""], "a..b" gives ["a", "", "b"]
RECURSIVE SplitFrom(_, _, _)
SplitFrom(s, i, cur) ==
    IF i > Len(s) THEN << cur >>
    ELSE IF s[i] = Dot THEN << cur >> \o SplitFrom(s, i + 1, <<>>)
    ELSE SplitFrom(s, i + 1, Append(cur, s[i]))

Split(s) == SplitFrom(s, 1, <<>>)

-----------------------------------------------------------------------------
(* The domain codec: src/dns/label.rs                                      *)

\* LabelByte::from_byte: the class of the 16-bit value at pos
LabelByte_from_byte(buf, pos) ==
    LET b == parse_u16(buf, pos) IN
    IF b.outcome # "ok" THEN b
    ELSE IF b.value = 0 THEN Ok(pos, "Null")
    ELSE IF Bits(b.value, 14, 2) = 3 THEN Ok(pos, "Pointer")
    ELSE Ok(pos, "Length")

\* a plausible slip: the tag bits 10 instead of 11
create_and_add_pointer_Tag10(offset) == U16Bytes(32768 + ((offset % 65536) % 16384))

\* create_and_add_pointer: ((offset & 0xffff) as u16) | 0xc000, big-endian
create_and_add_pointer(offset) ==
    LET low == offset % 65536 IN
    U16Bytes(49152 + (low % 16384))

\* ensure!(len < 0xcfff) of Domain::encode
LabelLimit == 53247

\* the length field of Domain::encode: ensure!(len < 0xcfff), then
\* u16::try_from(len)? & 0xcfff, which clears bits 12 and 13
LabelLenField(len) ==
    IF len >= LabelLimit THEN Err
    ELSE Ok(0, len - Bits(len, 12, 2) * 4096)

EncResult(outcome, bytes, map) == [outcome |-> outcome, bytes |-> bytes, map |-> map]

\* a plausible slip: no break after the pointer
RECURSIVE EncodeLoop_NoBreak(_, _, _, _, _)
EncodeLoop_NoBreak(labels, label_num, pos, buf, label_map) ==
    IF label_num > Len(labels) THEN EncResult("ok", buf, label_map)
    ELSE LET label == Join(labels, label_num) IN
         IF label \in DOMAIN label_map
         THEN EncodeLoop_NoBreak(labels, label_num + 1, pos,
                                 buf \o create_and_add_pointer(label_map[label]), label_map)
         ELSE LET l == labels[label_num]
                  loc == pos + Len(buf)
                  map1 == MapInsert(label_map, label, loc)
                  len == LabelLenField(Len(l))
              IN  IF len.outcome # "ok" THEN EncResult("err", <<>>, map1)
                  ELSE LET buf1 == buf \o U16Bytes(len.value) \o l
                           buf2 == IF label_num = Len(labels)
                                   THEN buf1 \o <<0, 0>> ELSE buf1
                       IN  EncodeLoop_NoBreak(labels, label_num + 1, pos, buf2, map1)

\* a plausible slip: the location taken as pos, without the bytes written
\* so far
RECURSIVE EncodeLoop_LocAtPos(_, _, _, _, _)
EncodeLoop_LocAtPos(labels, label_num, pos, buf, label_map) ==
    IF label_num > Len(labels) THEN EncResult("ok", buf, label_map)
    ELSE LET label == Join(labels, label_num) IN
         IF label \in DOMAIN label_map
         THEN EncResult("ok", buf \o create_and_add_pointer(label_map[label]), label_map)
         ELSE LET l == labels[label_num]
                  loc == pos
                  map1 == MapInsert(label_map, label, loc)
                  len == LabelLenField(Len(l))
              IN  IF len.outcome # "ok" THEN EncResult("err", <<>>, map1)
                  ELSE LET buf1 == buf \o U16Bytes(len.value) \o l
                           buf2 == IF label_num = Len(labels)
                                   THEN buf1 \o <<0, 0>> ELSE buf1
                       IN  EncodeLoop_LocAtPos(labels, label_num + 1, pos, buf2, map1)

\* the loop body of Domain::encode for label_num (1-based here) and after
RECURSIVE EncodeLoop(_, _, _, _, _)
EncodeLoop(labels, label_num, pos, buf, label_map) ==
    IF label_num > Len(labels) THEN EncResult("ok", buf, label_map)
    ELSE LET label == Join(labels, label_num) IN
         IF label \in DOMAIN label_map
         THEN \* cache hit: a pointer, then break
              EncResult("ok", buf \o create_and_add_pointer(label_map[label]), label_map)
         ELSE \* cache miss: register the suffix, write the label
              LET l == labels[label_num]
                  loc == pos + Len(buf)
                  map1 == MapInsert(label_map, label, loc)
                  len == LabelLenField(Len(l))
              IN  IF len.outcome # "ok" THEN EncResult("err", <<>>, map1)
                  ELSE LET buf1 == buf \o U16Bytes(len.value) \o l
                           buf2 == IF label_num = Len(labels)
                                   THEN buf1 \o <<0, 0>> ELSE buf1
                       IN  EncodeLoop(labels, label_num + 1, pos, buf2, map1)

\* Domain::encode(&self, pos, label_map): the bytes and the map it leaves
Domain_encode(labels, pos, label_map) == EncodeLoop(labels, 1, pos, <<>>, label_map)

DecResult(outcome, cursor, value, map) ==
    [outcome |-> outcome, cursor |-> cursor, value |-> value, map |-> map]

\* the labels of the local list of (label, offset) pairs
RECURSIVE PairLabels(_, _)
PairLabels(offsets, i) ==
    IF i > Len(offsets) THEN <<>>
    ELSE << offsets[i][1] >> \o PairLabels(offsets, i + 1)

\* a plausible slip: the insert not guarded by the key being absent
RECURSIVE UpdateMap_Overwrite(_, _, _, _, _)
UpdateMap_Overwrite(offsets, i, hasDomain, domain, label_map) ==
    IF i > Len(offsets) THEN label_map
    ELSE LET local == Join(PairLabels(offsets, 1), i)
             x == IF hasDomain THEN local \o <<Dot>> \o domain ELSE local
         IN  UpdateMap_Overwrite(offsets, i + 1, hasDomain, domain,
                                 MapInsert(label_map, x, offsets[i][2]))

\* a plausible slip: the pointed-to domain left out of the key
RECURSIVE UpdateMap_LocalOnly(_, _, _, _, _)
UpdateMap_LocalOnly(offsets, i, hasDomain, domain, label_map) ==
    IF i > Len(offsets) THEN label_map
    ELSE LET x == Join(PairLabels(offsets, 1), i)
             m == IF x \in DOMAIN label_map THEN label_map
                  ELSE MapInsert(label_map, x, offsets[i][2])
         IN  UpdateMap_LocalOnly(offsets, i + 1, hasDomain, domain, m)

\* the map update at the end of a domain: for each local label, its suffix
\* (followed by "." and the pointed-to domain when there is one) is
\* inserted at the label's offset when the key is absent
RECURSIVE UpdateMap(_, _, _, _, _)
UpdateMap(offsets, i, hasDomain, domain, label_map) ==
    IF i > Len(offsets) THEN label_map
    ELSE LET local == Join(PairLabels(offsets, 1), i)
             x == IF hasDomain THEN local \o <<Dot>> \o domain ELSE local
             m == IF x \in DOMAIN label_map THEN label_map
                  ELSE MapInsert(label_map, x, offsets[i][2])
         IN  UpdateMap(offsets, i + 1, hasDomain, domain, m)

\* a plausible slip: the nearest suffix at or below the offset
FindByOffset_AtOrBelow(label_map, offset) ==
    { k \in DOMAIN label_map : label_map[k] <= offset }

\* label_map.iter().find(|(_, o)| **o == offset): the keys stored at offset
FindByOffset(label_map, offset) ==
    { k \in DOMAIN label_map : label_map[k] = offset }

\* a plausible slip: each label registered in the map as it is read
RECURSIVE DecodeLoop_InsertFirst(_, _, _, _)
DecodeLoop_InsertFirst(buf, current, offsets, label_map) ==
    LET lb == LabelByte_from_byte(buf, current) IN
    IF lb.outcome # "ok" THEN { DecResult(lb.outcome, 0, <<>>, label_map) }
    ELSE IF lb.value = "Null"
    THEN { DecResult("ok", current + 2, PairLabels(offsets, 1),
                     UpdateMap(offsets, 1, FALSE, <<>>, label_map)) }
    ELSE IF lb.value = "Pointer"
    THEN LET p == parse_u16(buf, current)
             offset == p.value % 16384
             owners == FindByOffset(label_map, offset)
         IN  IF owners = {} THEN { DecResult("err", 0, <<>>, label_map) }
             ELSE { DecResult("ok", p.cursor, PairLabels(offsets, 1) \o Split(domain),
                              UpdateMap(offsets, 1, TRUE, domain, label_map)) :
                    domain \in owners }
    ELSE LET s == parse_string(buf, current) IN
         IF s.outcome # "ok" THEN { DecResult(s.outcome, 0, <<>>, label_map) }
         ELSE DecodeLoop_InsertFirst(buf, s.cursor, Append(offsets, <<s.value, current>>),
                                     IF s.value \in DOMAIN label_map THEN label_map
                                     ELSE MapInsert(label_map, s.value, current))

\* the loop of Domain::decode from cursor current.  The result is a set:
\* label_map.iter().find(..) returns the first entry with the offset in the
\* HashMap's iteration order, any of them when several keys share it.
RECURSIVE DecodeLoop(_, _, _, _)
DecodeLoop(buf, current, offsets, label_map) ==
    LET lb == LabelByte_from_byte(buf, current) IN
    IF lb.outcome # "ok" THEN { DecResult(lb.outcome, 0, <<>>, label_map) }
    ELSE IF lb.value = "Null"
    THEN { DecResult("ok", current + 2, PairLabels(offsets, 1),
                     UpdateMap(offsets, 1, FALSE, <<>>, label_map)) }
    ELSE IF lb.value = "Pointer"
    THEN LET p == parse_u16(buf, current)
             offset == p.value % 16384
             owners == FindByOffset(label_map, offset)
         IN  IF owners = {} THEN { DecResult("err", 0, <<>>, label_map) }
             ELSE { DecResult("ok", p.cursor, PairLabels(offsets, 1) \o Split(domain),
                              UpdateMap(offsets, 1, TRUE, domain, label_map)) :
                    domain \in owners }
    ELSE LET s == parse_string(buf, current) IN
         IF s.outcome # "ok" THEN { DecResult(s.outcome, 0, <<>>, label_map) }
         ELSE DecodeLoop(buf, s.cursor, Append(offsets, <<s.value, current>>), label_map)

\* a plausible slip: the pointer followed in the buffer, the loop going on
\* at the offset it names
AfterPointer_Follow(c, offset) == [pc |-> "loop", current |-> offset]

\* the end of the pointer arm: current = c; break Ok((current, res))
AfterPointer(c, offset) == [pc |-> "ok", current |-> c]

\* Domain::decode(buf, pos, label_map): every result the call can return
Domain_decode(buf, pos, label_map) == DecodeLoop(buf, pos, <<>>, label_map)

-----------------------------------------------------------------------------
(* Record types: src/dns/question.rs (i16) and src/dns/question_type.rs    *)
(* (u16).  A QuestionType is one of the sixteen variants of the enum.       *)

QuestionType ==
    {"A", "NS", "MD", "MF", "CNAME", "SOA", "MB", "MG", "MR", "NULL", "WKS", "PTR",
     "HINFO", "MINFO", "MX", "TXT"}

\* i16::from_be_bytes as a signed value: 0x8000.. are negative
IsNegativeI16(raw) == raw >= 32768

\* the arms of impl TryInto<QuestionType> for i16 (question.rs)
QuestionType_try_from(raw) ==
    CASE raw = 1 -> Ok(0, "A")
      [] raw = 2 -> Ok(0, "NS")
      [] raw = 3 -> Ok(0, "MD")
      [] raw = 4 -> Ok(0, "MF")
      [] raw = 5 -> Ok(0, "CNAME")
      [] raw = 6 -> Ok(0, "SOA")
      [] raw = 7 -> Ok(0, "MB")
      [] raw = 8 -> Ok(0, "MG")
      [] raw = 9 -> Ok(0, "MR")
      [] raw = 10 -> Ok(0, "NULL")
      [] raw = 11 -> Ok(0, "WKS")
      [] raw = 12 -> Ok(0, "PTR")
      [] raw = 13 -> Ok(0, "HINFO")
      [] raw = 14 -> Ok(0, "MINFO")
      [] raw = 15 -> Ok(0, "MX")
      [] raw = 16 -> Ok(0, "TXT")
      [] OTHER -> Err

\* a plausible slip: two arms exchanged
QuestionType_to_int_MdMf(qtype) ==
    [A |-> 1, NS |-> 2, MD |-> 4, MF |-> 3, CNAME |-> 5, SOA |-> 6, MB |-> 7, MG |-> 8,
     MR |-> 9, NULL |-> 10, WKS |-> 11, PTR |-> 12, HINFO |-> 13, MINFO |-> 14,
     MX |-> 15, TXT |-> 16][qtype]

\* the arms of impl TryInto<i16> for QuestionType (question.rs)
QuestionType_to_int(qtype) ==
    [A |-> 1, NS |-> 2, MD |-> 3, MF |-> 4, CNAME |-> 5, SOA |-> 6, MB |-> 7, MG |-> 8,
     MR |-> 9, NULL |-> 10, WKS |-> 11, PTR |-> 12, HINFO |-> 13, MINFO |-> 14,
     MX |-> 15, TXT |-> 16][qtype]

\* the arms of impl TryInto<QuestionType> for u16 (question_type.rs)
QuestionType_try_from_u16(raw) ==
    CASE raw = 1 -> Ok(0, "A")
      [] raw = 2 -> Ok(0, "NS")
      [] raw = 3 -> Ok(0, "MD")
      [] raw = 4 -> Ok(0, "MF")
      [] raw = 5 -> Ok(0, "CNAME")
      [] raw = 6 -> Ok(0, "SOA")
      [] raw = 7 -> Ok(0, "MB")
      [] raw = 8 -> Ok(0, "MG")
      [] raw = 9 -> Ok(0, "MR")
      [] raw = 10 -> Ok(0, "NULL")
      [] raw = 11 -> Ok(0, "WKS")
      [] raw = 12 -> Ok(0, "PTR")
      [] raw = 13 -> Ok(0, "HINFO")
      [] raw = 14 -> Ok(0, "MINFO")
      [] raw = 15 -> Ok(0, "MX")
      [] raw = 16 -> Ok(0, "TXT")
      [] OTHER -> Err

\* the arms of impl TryInto<u16> for QuestionType (question_type.rs)
QuestionType_to_u16(qtype) ==
    [A |-> 1, NS |-> 2, MD |-> 3, MF |-> 4, CNAME |-> 5, SOA |-> 6, MB |-> 7, MG |-> 8,
     MR |-> 9, NULL |-> 10, WKS |-> 11, PTR |-> 12, HINFO |-> 13, MINFO |-> 14,
     MX |-> 15, TXT |-> 16][qtype]

-----------------------------------------------------------------------------
(* Questions: src/dns/question.rs                                          *)

BytesResult(outcome, bytes) == [outcome |-> outcome, bytes |-> bytes]

\* LabelSet::from_domain
LabelSet_from_domain(domain) == Split(domain)

\* LabelSet::as_domain
LabelSet_as_domain(labels) == Join(labels, 1)

\* a plausible slip: the null terminator left out
RECURSIVE LabelSet_encode_NoTerminator(_)
LabelSet_encode_NoTerminator(labels) ==
    IF labels = <<>> THEN BytesResult("ok", <<>>)
    ELSE IF Len(labels[1]) > 255 THEN BytesResult("err", <<>>)
    ELSE LET rest == LabelSet_encode_NoTerminator(Tail(labels)) IN
         IF rest.outcome # "ok" THEN rest
         ELSE BytesResult("ok", << Len(labels[1]) >> \o labels[1] \o rest.bytes)

\* LabelSet::encode: per label put_u8(len.try_into()?) and the bytes, then
\* b"\x00"
RECURSIVE LabelSet_encode(_)
LabelSet_encode(labels) ==
    IF labels = <<>> THEN BytesResult("ok", <<0>>)
    ELSE IF Len(labels[1]) > 255 THEN BytesResult("err", <<>>)
    ELSE LET rest == LabelSet_encode(Tail(labels)) IN
         IF rest.outcome # "ok" THEN rest
         ELSE BytesResult("ok", << Len(labels[1]) >> \o labels[1] \o rest.bytes)

\* DnsQuestion::to_bytes: the name, the type, and the class written as 1
DnsQuestion_to_bytes(q) ==
    LET name == LabelSet_encode(q.name) IN
    IF name.outcome # "ok" THEN name
    ELSE BytesResult("ok", name.bytes \o U16Bytes(QuestionType_to_int(q.qtype)) \o U16Bytes(1))

\* the while loop of parse_question: labels until a zero length byte
RECURSIVE ParseLabels(_, _, _)
ParseLabels(buf, current, labels) ==
    IF current + 1 > Len(buf) THEN Panic
    ELSE IF buf[current + 1] = 0 THEN Ok(current, labels)
    ELSE LET length == buf[current + 1]
             from == current + 1
         IN  IF from + length > Len(buf) THEN Panic
             ELSE LET label == SubSeq(buf, from + 1, from + length) IN
                  IF ~Utf8Valid(label) THEN Err
                  ELSE ParseLabels(buf, from + length, Append(labels, label))

\* parse_question(buf, start): Ok carries the question and the new cursor
parse_question(buf, start) ==
    IF \A i \in 1..Len(buf) : buf[i] # 0 THEN Err
    ELSE IF Len(buf) = 0 THEN Err
    ELSE LET name == ParseLabels(buf, start, <<>>) IN
         IF name.outcome # "ok" THEN name
         ELSE LET c1 == name.cursor + 1 IN
              IF c1 + 2 > Len(buf) THEN Panic
              ELSE LET raw == U16From(buf[c1 + 1], buf[c1 + 2])
                       qtype == IF IsNegativeI16(raw) THEN Err ELSE QuestionType_try_from(raw)
                   IN  IF qtype.outcome # "ok" THEN Err
                       ELSE LET c2 == c1 + 2 IN
                            IF c2 + 2 > Len(buf) THEN Panic
                            ELSE Ok(c2 + 2, [name |-> name.value, qtype |-> qtype.value,
                                             class |-> U16From(buf[c2 + 1], buf[c2 + 2])])

\* the for loop of parse_questions: start += i, i the cursor parse_question
\* returned
RECURSIVE ParseQuestionsLoop(_, _, _, _)
ParseQuestionsLoop(buf, left, start, questions) ==
    IF left = 0 THEN Ok(start, questions)
    ELSE LET r == parse_question(buf, start) IN
         IF r.outcome # "ok" THEN r
         ELSE ParseQuestionsLoop(buf, left - 1, start + r.cursor, Append(questions, r.value))

\* parse_questions(buf, num_questions)
parse_questions(buf, num_questions) == ParseQuestionsLoop(buf, num_questions, 0, <<>>)

-----------------------------------------------------------------------------
(* Answers: src/dns/answer.rs                                              *)

\* DnsAnswer::encode: name, type, class, ttl, put_u16(data.len() as u16 * 4),
\* data
DnsAnswer_encode(a) ==
    LET name == LabelSet_encode(a.name) IN
    IF name.outcome # "ok" THEN name
    ELSE BytesResult("ok",
            name.bytes \o U16Bytes(QuestionType_to_u16(a.qtype)) \o U16Bytes(a.class)
            \o U32Bytes(a.ttl) \o U16Bytes(((Len(a.data) % 65536) * 4) % 65536) \o a.data)

RECURSIVE EncodeAnswers(_)
EncodeAnswers(answers) ==
    IF answers = <<>> THEN BytesResult("ok", <<>>)
    ELSE LET first == DnsAnswer_encode(answers[1]) IN
         IF first.outcome # "ok" THEN first
         ELSE LET rest == EncodeAnswers(Tail(answers)) IN
              IF rest.outcome # "ok" THEN rest
              ELSE BytesResult("ok", first.bytes \o rest.bytes)

\* a plausible slip: the count check left out
DnsAnswerSet_encode_NoCheck(answers, num_answers) == EncodeAnswers(answers)

\* DnsAnswerSet::encode(&self, num_answers)
DnsAnswerSet_encode(answers, num_answers) ==
    IF num_answers # Len(answers) THEN BytesResult("err", <<>>)
    ELSE EncodeAnswers(answers)

-----------------------------------------------------------------------------
(* Messages: src/dns/dns.rs                                                *)

RECURSIVE EncodeQuestions(_)
EncodeQuestions(questions) ==
    IF questions = <<>> THEN BytesResult("ok", <<>>)
    ELSE LET first == DnsQuestion_to_bytes(questions[1]) IN
         IF first.outcome # "ok" THEN first
         ELSE LET rest == EncodeQuestions(Tail(questions)) IN
              IF rest.outcome # "ok" THEN rest
              ELSE BytesResult("ok", first.bytes \o rest.bytes)

\* DnsMessage::to_bytes: the header, then every question of the list
DnsMessage_to_bytes(msg) ==
    LET qs == EncodeQuestions(msg.questions) IN
    IF qs.outcome # "ok" THEN qs
    ELSE BytesResult("ok", write_header(msg.header) \o qs.bytes)

\* parse_request: at least 12 bytes, the header, then question_count
\* questions from the bytes after the header
parse_request(buf) ==
    IF Len(buf) < 12 THEN Err
    ELSE LET dns_header == parse_header(buf) IN
         IF dns_header.outcome # "ok" THEN dns_header
         ELSE LET questions == parse_questions(SubSeq(buf, 13, Len(buf)),
                                               dns_header.value.question_count)
              IN  IF questions.outcome # "ok" THEN questions
                  ELSE Ok(0, [header |-> dns_header.value, questions |-> questions.value])

-----------------------------------------------------------------------------
(* Names written back to back into one buffer by Domain::encode with one   *)
(* label map, and decoded front to back by Domain::decode                  *)

MaxLabels == 2
MaxDomains == 2

\* "a", "b", "1f", "google", "com"
LabelA == <<97>>
LabelB == <<98>>
Label1f == <<49, 102>>
GoogleCom == << <<103, 111, 111, 103, 108, 101>>, <<99, 111, 109>> >>

Labels == {LabelA, Label1f}

RECURSIVE SeqsUpTo(_, _)
SeqsUpTo(S, n) ==
    IF n = 0 THEN { <<>> }
    ELSE LET shorter == SeqsUpTo(S, n - 1) IN
         shorter \cup { Append(q, x) : q \in { t \in shorter : Len(t) = n - 1 }, x \in S }

\* every name of up to MaxLabels labels over Labels, and two more: "b.a",
\* "google.com"
Domains == (SeqsUpTo(Labels, MaxLabels) \ { <<>> }) \cup { <<LabelB, LabelA>>, GoogleCom }

\* the bytes before the first name (a header's place)
StartPositions == {0, 12}

Zeros(n) == [i \in 1..n |-> 0]

DomainIdle ==
    /\ d_pc = "idle" /\ d_start = 0 /\ d_share = FALSE /\ d_buf = <<>>
    /\ d_names = <<>> /\ d_enc = <<>> /\ d_truth = EmptyMap /\ e_map = EmptyMap
    /\ d_cur = 0 /\ d_map = EmptyMap /\ d_dec = <<>>

DomainInit ==
    /\ d_pc = "run"
    /\ d_start \in StartPositions
    /\ d_share \in BOOLEAN
    /\ d_buf = Zeros(d_start)
    /\ d_names = <<>> /\ d_enc = <<>> /\ d_truth = EmptyMap /\ e_map = EmptyMap
    /\ d_cur = d_start /\ d_map = EmptyMap /\ d_dec = <<>>

\* Domain::encode of one more name at the end of the buffer
EncodeDomain ==
    /\ d_pc = "run"
    /\ Len(d_enc) < MaxDomains
    /\ \E labels \in Domains :
         LET pos == Len(d_buf)
             r == Domain_encode(labels, pos, e_map)
         IN  /\ e_map' = r.map
             /\ IF r.outcome = "ok"
                THEN /\ d_buf' = d_buf \o r.bytes
                     /\ d_enc' = Append(d_enc, [at |-> pos, bytes |-> r.bytes,
                                                before |-> e_map, after |-> r.map])
                     /\ d_names' = Append(d_names, labels)
                     /\ d_pc' = "run"
                ELSE /\ d_pc' = "failed"
                     /\ UNCHANGED <<d_buf, d_enc, d_names>>
    /\ UNCHANGED <<d_start, d_share, d_truth, d_cur, d_map, d_dec, headerVars, recordVars, serverVars, readerVars, farVars, loopVars>>

\* Domain::decode of the next name at the cursor
DecodeDomain ==
    /\ d_pc = "run"
    /\ Len(d_dec) < Len(d_enc)
    /\ \E r \in Domain_decode(d_buf, d_cur, IF d_share THEN e_map ELSE d_map) :
         /\ d_dec' = Append(d_dec, [outcome |-> r.outcome, cursor |-> r.cursor,
                                    value |-> r.value, written |-> Len(d_enc),
                                    before |-> IF d_share THEN e_map ELSE d_map])
         /\ IF d_share THEN e_map' = r.map /\ d_map' = d_map
                       ELSE d_map' = r.map /\ e_map' = e_map
         /\ d_cur' = IF r.outcome = "ok" THEN r.cursor ELSE d_cur
         /\ d_pc' = IF r.outcome = "ok" THEN "run" ELSE "failed"
    /\ UNCHANGED <<d_start, d_share, d_buf, d_names, d_enc, d_truth, headerVars, recordVars, serverVars, readerVars, farVars, loopVars>>

DomainNext == EncodeDomain \/ DecodeDomain

-----------------------------------------------------------------------------
(* A buffer written by another encoder (any name may end in a pointer to   *)
(* any label written before it) and decoded front to back by               *)
(* Domain::decode with one label map                                       *)

MaxNames == 3

\* the labels a fed name writes out itself: none, "a", "1f", "a.1f"
FeedNames == { <<>>, <<LabelA>>, <<Label1f>>, <<LabelA, Label1f>> }

\* labels in the wire form Domain::decode reads: a 16-bit length, the bytes
RECURSIVE WireLabels(_, _)
WireLabels(labels, i) ==
    IF i > Len(labels) THEN <<>>
    ELSE U16Bytes(Len(labels[i])) \o labels[i] \o WireLabels(labels, i + 1)

\* the offset of label i of a name written at position at
RECURSIVE LabelOffset(_, _, _)
LabelOffset(labels, i, at) ==
    IF i = 1 THEN at ELSE LabelOffset(labels, i - 1, at) + 2 + Len(labels[i - 1])

DecodeInit ==
    /\ d_pc = "run"
    /\ d_start \in StartPositions
    /\ d_share = FALSE
    /\ d_buf = Zeros(d_start)
    /\ d_names = <<>> /\ d_enc = <<>> /\ d_truth = EmptyMap /\ e_map = EmptyMap
    /\ d_cur = d_start /\ d_map = EmptyMap /\ d_dec = <<>>

\* the next name arrives: its labels, then a null marker
FeedPlainName ==
    /\ d_pc = "run"
    /\ Len(d_enc) < MaxNames
    /\ Len(d_dec) = Len(d_enc)
    /\ \E labels \in FeedNames :
         LET at == Len(d_buf)
             bytes == WireLabels(labels, 1) \o <<0, 0>>
         IN  /\ d_buf' = d_buf \o bytes
             /\ d_enc' = Append(d_enc, [at |-> at, bytes |-> bytes, term |-> "null"])
             /\ d_names' = Append(d_names, labels)
             /\ d_truth' = [o \in (DOMAIN d_truth)
                                    \cup { LabelOffset(labels, i, at) : i \in 1..Len(labels) } |->
                              IF o \in DOMAIN d_truth THEN d_truth[o]
                              ELSE LET i == CHOOSE j \in 1..Len(labels) :
                                                LabelOffset(labels, j, at) = o
                                   IN  SubSeq(labels, i, Len(labels))]
    /\ UNCHANGED <<d_pc, d_start, d_share, e_map, d_cur, d_map, d_dec, headerVars, recordVars, serverVars, readerVars, farVars, loopVars>>

\* the next name arrives: its labels, then a pointer to a label written
\* before it
FeedPointerName ==
    /\ d_pc = "run"
    /\ Len(d_enc) < MaxNames
    /\ Len(d_dec) = Len(d_enc)
    /\ \E labels \in FeedNames, target \in DOMAIN d_truth :
         LET at == Len(d_buf)
             bytes == WireLabels(labels, 1) \o U16Bytes(49152 + target)
             tail == d_truth[target]
         IN  /\ d_buf' = d_buf \o bytes
             /\ d_enc' = Append(d_enc, [at |-> at, bytes |-> bytes, term |-> "pointer"])
             /\ d_names' = Append(d_names, labels \o tail)
             /\ d_truth' = [o \in (DOMAIN d_truth)
                                    \cup { LabelOffset(labels, i, at) : i \in 1..Len(labels) } |->
                              IF o \in DOMAIN d_truth THEN d_truth[o]
                              ELSE LET i == CHOOSE j \in 1..Len(labels) :
                                                LabelOffset(labels, j, at) = o
                                   IN  SubSeq(labels, i, Len(labels)) \o tail]
    /\ UNCHANGED <<d_pc, d_start, d_share, e_map, d_cur, d_map, d_dec, headerVars, recordVars, serverVars, readerVars, farVars, loopVars>>

\* the offsets a pointer must not name: the name's own labels, the first
\* offset after the name, and the pointer fields of the names before it
WildTargets(labels, at) ==
    { LabelOffset(labels, i, at) : i \in 1..Len(labels) }
    \cup { at + Len(WireLabels(labels, 1)) + 2 }
    \cup { d_enc[j].at + Len(d_enc[j].bytes) - 2 :
             j \in { n \in 1..Len(d_enc) : d_enc[n].term \in {"pointer", "wild"} } }

\* the next name arrives: its labels, then a pointer to an offset where no
\* label decoded before it starts
FeedWildPointer ==
    /\ d_pc = "run"
    /\ Len(d_enc) < MaxNames
    /\ Len(d_dec) = Len(d_enc)
    /\ \E labels \in FeedNames :
         LET at == Len(d_buf) IN
         \E target \in WildTargets(labels, at) :
             LET bytes == WireLabels(labels, 1) \o U16Bytes(49152 + target) IN
             /\ d_buf' = d_buf \o bytes
             /\ d_enc' = Append(d_enc, [at |-> at, bytes |-> bytes, term |-> "wild"])
             /\ d_names' = Append(d_names, labels)
    /\ UNCHANGED <<d_pc, d_start, d_share, d_truth, e_map, d_cur, d_map, d_dec, headerVars, recordVars, serverVars, readerVars, farVars, loopVars>>

\* what ends a name that cannot be decoded: half a length field, a label
\* cut short by the end of the buffer, a length above 0x3fff, a label that
\* is not UTF-8
BadTails == { <<0>>, <<0, 5, 97>>, <<64, 0>>, <<0, 1, 255>> }

\* the next name arrives: its labels, then bytes that end the decoding
\* without a name
FeedBadName ==
    /\ d_pc = "run"
    /\ Len(d_enc) < MaxNames
    /\ Len(d_dec) = Len(d_enc)
    /\ \E labels \in FeedNames, tail \in BadTails :
         LET at == Len(d_buf)
             bytes == WireLabels(labels, 1) \o tail
         IN  /\ d_buf' = d_buf \o bytes
             /\ d_enc' = Append(d_enc, [at |-> at, bytes |-> bytes, term |-> "bad"])
             /\ d_names' = Append(d_names, labels)
    /\ UNCHANGED <<d_pc, d_start, d_share, d_truth, e_map, d_cur, d_map, d_dec, headerVars, recordVars, serverVars, readerVars, farVars, loopVars>>

\* Domain::encode of one more name at the end of the buffer, with the label
\* map the decoder has built
EncodeAfterDecode ==
    /\ d_pc = "run"
    /\ Len(d_enc) < MaxNames
    /\ Len(d_dec) = Len(d_enc)
    /\ \E labels \in FeedNames \ {<<>>} :
         LET at == Len(d_buf)
             r == Domain_encode(labels, at, d_map)
         IN  /\ r.outcome = "ok"
             /\ d_map' = r.map
             /\ d_buf' = d_buf \o r.bytes
             /\ d_enc' = Append(d_enc, [at |-> at, bytes |-> r.bytes, term |-> "encoded"])
             /\ d_names' = Append(d_names, labels)
    /\ UNCHANGED <<d_pc, d_start, d_share, d_truth, e_map, d_cur, d_dec, headerVars, recordVars, serverVars, readerVars, farVars, loopVars>>

DecodeNext ==
    \/ FeedPlainName \/ FeedPointerName \/ FeedWildPointer \/ FeedBadName
    \/ EncodeAfterDecode \/ DecodeDomain

-----------------------------------------------------------------------------
(* Header round trips: the inputs of the two quickcheck properties         *)

U16Samples == {0, 43981}
CountSamples == { <<0, 0, 0, 0>>, <<1, 515, 65534, 32768>> }
ByteSamples == {0, 1, 127, 128, 255}
FieldSamples == {16, 255}

OpcodeSamples == (0..15) \cup FieldSamples
ReservedSamples == (0..7) \cup {8}
RcodeSamples == {0, 1, 10, 15} \cup FieldSamples

ValidHeader(h) == h.opcode <= 15 /\ h.reserved <= 7 /\ h.response_code <= 15

\* a header as quickcheck draws one, the narrow fields also out of range
IsHeaderInput(h) ==
    \E id \in U16Samples, qr \in {"Query", "Response"}, op \in OpcodeSamples,
       aa \in BOOLEAN, tc \in BOOLEAN, rd \in BOOLEAN, ra \in BOOLEAN,
       z \in ReservedSamples, rc \in RcodeSamples, c \in CountSamples :
         h = [ packet_id |-> id, query_type |-> qr, opcode |-> op,
               auth_answer |-> aa, truncation |-> tc, recursion_desired |-> rd,
               recursion_available |-> ra, reserved |-> z, response_code |-> rc,
               question_count |-> c[1], answer_record_count |-> c[2],
               authority_record_count |-> c[3], additional_record_count |-> c[4] ]

\* a 12-byte buffer: one flag byte takes every value, the other the samples
IsRawHeader(b) ==
    \E id \in U16Samples, c \in CountSamples, x \in Byte, y \in ByteSamples,
       swap \in BOOLEAN :
         b = U16Bytes(id) \o (IF swap THEN <<y, x>> ELSE <<x, y>>)
             \o U16Bytes(c[1]) \o U16Bytes(c[2]) \o U16Bytes(c[3]) \o U16Bytes(c[4])

HeaderIdle ==
    /\ h_pc = "idle" /\ h_in = DnsHeaderDefault /\ h_bytes = <<>>
    /\ h_out = Err /\ h_back = <<>>

HeaderInit ==
    /\ h_out = Err
    /\ h_back = <<>>
    /\ \/ h_pc = "header" /\ IsHeaderInput(h_in) /\ h_bytes = <<>>
       \/ h_pc = "raw" /\ h_in = DnsHeaderDefault /\ IsRawHeader(h_bytes)

\* header.rs tests::decode_encode_header, first half
EncodeHeader ==
    /\ h_pc = "header"
    /\ h_bytes' = DnsHeader_encode(h_in)
    /\ h_pc' = "encoded"
    /\ UNCHANGED <<h_in, h_out, h_back, domainVars, recordVars, serverVars, readerVars, farVars, loopVars>>

\* header.rs tests::decode_encode_header, second half
DecodeHeader ==
    /\ h_pc = "encoded"
    /\ h_out' = DnsHeader_decode(h_bytes, 0)
    /\ h_pc' = "decoded"
    /\ UNCHANGED <<h_in, h_bytes, h_back, domainVars, recordVars, serverVars, readerVars, farVars, loopVars>>

\* dns.rs tests::decode_encode_header, first half
ParseHeader ==
    /\ h_pc = "raw"
    /\ h_out' = parse_header(h_bytes)
    /\ h_pc' = "parsed"
    /\ UNCHANGED <<h_in, h_bytes, h_back, domainVars, recordVars, serverVars, readerVars, farVars, loopVars>>

\* dns.rs tests::decode_encode_header, second half
WriteHeader ==
    /\ h_pc = "parsed"
    /\ h_out.outcome = "ok"
    /\ h_back' = write_header(h_out.value)
    /\ h_pc' = "written"
    /\ UNCHANGED <<h_in, h_bytes, h_out, domainVars, recordVars, serverVars, readerVars, farVars, loopVars>>

HeaderNext == EncodeHeader \/ DecodeHeader \/ ParseHeader \/ WriteHeader

-----------------------------------------------------------------------------
(* Record codecs on their own: a label set, an answer set, a message       *)

MaxAnswers == 2
MaxQuestions == 2

LongLabel == [i \in 1..256 |-> 97]

RecordNames == (SeqsUpTo(Labels, MaxLabels) \ {<<>>}) \cup {GoogleCom, <<LabelB, LabelA>>}

AnswerSamples ==
    { [name |-> <<LabelA>>, qtype |-> "A", class |-> 1, ttl |-> 0, data |-> <<>>],
      [name |-> GoogleCom, qtype |-> "A", class |-> 1, ttl |-> 300, data |-> <<127, 0, 0, 1>>],
      [name |-> <<LongLabel>>, qtype |-> "CNAME", class |-> 1, ttl |-> 300, data |-> <<1>>] }

QuestionSamples ==
    { [name |-> GoogleCom, qtype |-> "A", class |-> 1],
      [name |-> <<LabelA>>, qtype |-> "CNAME", class |-> 1],
      [name |-> <<Label1f, LabelA>>, qtype |-> "TXT", class |-> 3] }

UnencodableQuestion == [name |-> <<LongLabel>>, qtype |-> "A", class |-> 1]

RecordsIdle ==
    /\ r_pc = "idle"
    /\ r_in = <<>>
    /\ r_num = 0
    /\ r_out = BytesResult("ok", <<>>)
    /\ r_parsed = Err

RecordsInit ==
    /\ r_out = BytesResult("ok", <<>>)
    /\ r_parsed = Err
    /\ \/ /\ r_pc = "domain"
          /\ \E name \in RecordNames : r_in = Join(name, 1)
          /\ r_num = 0
       \/ /\ r_pc = "answers"
          /\ r_in \in SeqsUpTo(AnswerSamples, MaxAnswers)
          /\ r_num \in 0..(MaxAnswers + 1)
       \/ /\ r_pc = "questions"
          /\ r_in \in SeqsUpTo(QuestionSamples, MaxQuestions)
          /\ r_num = 0
       \/ /\ r_pc = "message"
          /\ \E questions \in SeqsUpTo(QuestionSamples \cup {UnencodableQuestion}, MaxQuestions),
                packet_id \in U16Samples, question_count \in 0..(MaxQuestions + 1) :
                r_in = [header |-> [DnsHeaderDefault EXCEPT !.packet_id = packet_id,
                                                             !.question_count = question_count],
                        questions |-> questions]
          /\ r_num = 0

\* LabelSet::from_domain(domain).encode()
EncodeLabelSet ==
    /\ r_pc = "domain"
    /\ r_out' = LabelSet_encode(LabelSet_from_domain(r_in))
    /\ r_pc' = "labels_encoded"
    /\ UNCHANGED <<r_in, r_num, r_parsed, headerVars, domainVars, serverVars, readerVars, farVars, loopVars>>

\* parse_questions over the encoded name followed by type A and class 1
ParseEncodedName ==
    /\ r_pc = "labels_encoded"
    /\ r_out.outcome = "ok"
    /\ r_parsed' = parse_questions(r_out.bytes \o <<0, 1, 0, 1>>, 1)
    /\ r_pc' = "labels_parsed"
    /\ UNCHANGED <<r_in, r_num, r_out, headerVars, domainVars, serverVars, readerVars, farVars, loopVars>>

\* DnsAnswerSet { answers }.encode(num_answers)
EncodeAnswerSet ==
    /\ r_pc = "answers"
    /\ r_out' = DnsAnswerSet_encode(r_in, r_num)
    /\ r_pc' = "answers_encoded"
    /\ UNCHANGED <<r_in, r_num, r_parsed, headerVars, domainVars, serverVars, readerVars, farVars, loopVars>>

\* DnsMessage { header, questions }.to_bytes()
EncodeMessage ==
    /\ r_pc = "message"
    /\ r_out' = DnsMessage_to_bytes(r_in)
    /\ r_pc' = "message_encoded"
    /\ UNCHANGED <<r_in, r_num, r_parsed, headerVars, domainVars, serverVars, readerVars, farVars, loopVars>>

\* parse_request over the bytes of the message
ParseMessage ==
    /\ r_pc = "message_encoded"
    /\ r_out.outcome = "ok"
    /\ r_parsed' = parse_request(r_out.bytes)
    /\ r_pc' = "message_parsed"
    /\ UNCHANGED <<r_in, r_num, r_out, headerVars, domainVars, serverVars, readerVars, farVars, loopVars>>

\* every question of a set written with DnsQuestion::to_bytes, in order
EncodeQuestionSet ==
    /\ r_pc = "questions"
    /\ r_out' = EncodeQuestions(r_in)
    /\ r_pc' = "questions_encoded"
    /\ UNCHANGED <<r_in, r_num, r_parsed, headerVars, domainVars, serverVars, readerVars, farVars, loopVars>>

\* parse_questions over those bytes, for as many questions as were written
DecodeQuestionSet ==
    /\ r_pc = "questions_encoded"
    /\ r_out.outcome = "ok"
    /\ r_parsed' = parse_questions(r_out.bytes, Len(r_in))
    /\ r_pc' = "questions_parsed"
    /\ UNCHANGED <<r_in, r_num, r_out, headerVars, domainVars, serverVars, readerVars, farVars, loopVars>>

RecordsNext ==
    \/ EncodeLabelSet \/ ParseEncodedName \/ EncodeAnswerSet \/ EncodeMessage \/ ParseMessage
    \/ EncodeQuestionSet \/ DecodeQuestionSet

-----------------------------------------------------------------------------
(* The server: src/dns/dns.rs, DnsServer::run_until_stopped                *)

MaxDatagrams == 2

RecvBufSize == 1024

Clients == {"c1", "c2"}

\* a question as a client puts it on the wire, with the class it asks for
WireQuestion(q) ==
    LabelSet_encode(q.name).bytes \o U16Bytes(QuestionType_to_int(q.qtype)) \o U16Bytes(q.class)

RECURSIVE WireQuestions(_)
WireQuestions(questions) ==
    IF questions = <<>> THEN <<>>
    ELSE WireQuestion(questions[1]) \o WireQuestions(Tail(questions))

RequestHeader(question_count) ==
    write_header([DnsHeaderDefault EXCEPT !.packet_id = 43981, !.question_count = question_count])

\* what clients send: requests with 0..MaxQuestions questions, and datagrams
\* that are no requests
Datagrams ==
    { RequestHeader(Len(questions)) \o WireQuestions(questions) :
        questions \in SeqsUpTo(QuestionSamples \ {q \in QuestionSamples : q.qtype = "CNAME"}, MaxQuestions) }
    \cup { <<104, 101, 108, 108, 111, 32, 119, 111, 114, 108, 100>>,
           RequestHeader(1),
           RequestHeader(1) \o <<5, 97, 0>>,
           RequestHeader(1) \o <<1, 97, 0, 0, 17, 0, 1>>,
           RequestHeader(0) \o Zeros(RecvBufSize),
           Zeros(12) }

ServerIdle ==
    /\ s_pc = "idle"
    /\ s_inbox = <<>>
    /\ s_log = <<>>

\* DnsServer::build has bound the socket; run_until_stopped awaits recv_from
ServerInit ==
    /\ s_pc = "recv"
    /\ s_inbox = <<>>
    /\ s_log = <<>>

\* a client sends a datagram to the server's socket
ClientSend ==
    /\ Len(s_inbox) + Len(s_log) < MaxDatagrams
    /\ \E addr \in Clients, payload \in Datagrams :
          s_inbox' = Append(s_inbox, [addr |-> addr, payload |-> payload])
    /\ UNCHANGED <<s_pc, s_log, headerVars, domainVars, recordVars, readerVars, farVars, loopVars>>

\* a plausible slip: the reply encoded from the parsed request
ReplyBytes_Reencoded(received, req) == DnsMessage_to_bytes(req).bytes

\* send_to(&buf[..len], addr): the reply is the bytes received, as they came
ReplyBytes(received, req) == received

\* one turn of the loop of run_until_stopped: recv_from, parse_request(..)?,
\* send_to(&buf[..len], addr)
run_until_stopped ==
    /\ s_pc = "recv"
    /\ s_inbox # <<>>
    /\ LET dgram == Head(s_inbox)
           len == IF Len(dgram.payload) > RecvBufSize THEN RecvBufSize ELSE Len(dgram.payload)
           received == SubSeq(dgram.payload, 1, len)
           req == parse_request(received)
       IN  /\ s_inbox' = Tail(s_inbox)
           /\ IF req.outcome = "ok"
              THEN /\ s_log' = Append(s_log, [addr |-> dgram.addr, payload |-> dgram.payload,
                                               outcome |-> "ok", req |-> req.value,
                                               sent |-> TRUE, to |-> dgram.addr,
                                               reply |-> ReplyBytes(received,
                                                   [req.value EXCEPT !.header.query_type = "Response"])])
                   /\ s_pc' = "recv"
              ELSE /\ s_log' = Append(s_log, [addr |-> dgram.addr, payload |-> dgram.payload,
                                               outcome |-> req.outcome, req |-> <<>>,
                                               sent |-> FALSE, to |-> "", reply |-> <<>>])
                   /\ s_pc' = IF req.outcome = "err" THEN "returned" ELSE "panicked"
    /\ UNCHANGED <<headerVars, domainVars, recordVars, readerVars, farVars, loopVars>>

ServerNext == ClientSend \/ run_until_stopped

-----------------------------------------------------------------------------
(* The readers and the conversions, each called once on one input          *)

MaxBufLen == 3

ReaderBytes == {0, 1, 97, 255}

QuestionWire == <<6, 103, 111, 111, 103, 108, 101, 3, 99, 111, 109, 0, 0, 1, 0, 1>>

\* three different questions, in the order they are put on the wire
ThreeQuestions ==
    << [name |-> GoogleCom, qtype |-> "A", class |-> 1],
       [name |-> <<LabelA>>, qtype |-> "CNAME", class |-> 1],
       [name |-> <<Label1f, LabelA>>, qtype |-> "TXT", class |-> 3] >>

ReaderBuffers ==
    SeqsUpTo(ReaderBytes, MaxBufLen)
    \cup {Zeros(12), QuestionWire, QuestionWire \o QuestionWire, <<0, 0, 1, 0>> \o QuestionWire,
          WireQuestions(ThreeQuestions)}

\* a label of n bytes, all 'a' (as a sequence)
LabelOfLen(n) == [i \in 1..n |-> 97] \o <<>>

\* the names of a name field: those of Domains, the name of no labels
\* (Domain::default()), and a name whose label has 4096 bytes
FieldDomains == Domains \cup { <<>>, << LabelOfLen(4096) >> }

\* what follows a name field in a record: a question's type and class, and
\* the same followed by an answer of the empty name (type, class, ttl 0, no
\* data)
FieldTrailers ==
    { <<0, 1, 0, 1>>, <<0, 16, 0, 1>>,
      <<0, 1, 0, 1, 0, 1, 0, 1, 0, 0, 0, 0, 0, 0>> }

U16Values == 0..65535

ReaderIdle ==
    /\ p_pc = "idle"
    /\ p_buf = <<>>
    /\ p_pos = 0
    /\ p_arg = 0
    /\ p_out = Err

ReaderInit ==
    /\ p_out = Err
    /\ \/ /\ p_pc = "buffer"
          /\ p_buf \in ReaderBuffers
          /\ p_pos \in 0..(MaxBufLen + 1)
          /\ p_arg \in 0..Len(ThreeQuestions)
       \/ /\ p_pc = "number"
          /\ p_buf = <<>>
          /\ p_pos = 0
          /\ p_arg \in U16Values
       \/ /\ p_pc = "field"
          /\ p_buf \in FieldTrailers
          /\ p_pos \in StartPositions
          /\ p_arg \in [labels : FieldDomains, end : {0}]

ReadU8 ==
    /\ p_pc = "buffer"
    /\ p_pc' = "parse_u8"
    /\ p_out' = parse_u8(p_buf, p_pos)
    /\ UNCHANGED <<p_buf, p_pos, p_arg, headerVars, domainVars, recordVars, serverVars, farVars, loopVars>>

ReadU16 ==
    /\ p_pc = "buffer"
    /\ p_pc' = "parse_u16"
    /\ p_out' = parse_u16(p_buf, p_pos)
    /\ UNCHANGED <<p_buf, p_pos, p_arg, headerVars, domainVars, recordVars, serverVars, farVars, loopVars>>

ReadU32 ==
    /\ p_pc = "buffer"
    /\ p_pc' = "parse_u32"
    /\ p_out' = parse_u32(p_buf, p_pos)
    /\ UNCHANGED <<p_buf, p_pos, p_arg, headerVars, domainVars, recordVars, serverVars, farVars, loopVars>>

ReadString ==
    /\ p_pc = "buffer"
    /\ p_pc' = "parse_string"
    /\ p_out' = parse_string(p_buf, p_pos)
    /\ UNCHANGED <<p_buf, p_pos, p_arg, headerVars, domainVars, recordVars, serverVars, farVars, loopVars>>

ReadData ==
    /\ p_pc = "buffer"
    /\ p_pc' = "parse_data"
    /\ p_out' = parse_data(p_buf, p_pos, p_arg)
    /\ UNCHANGED <<p_buf, p_pos, p_arg, headerVars, domainVars, recordVars, serverVars, farVars, loopVars>>

DecodeHeaderAt ==
    /\ p_pc = "buffer"
    /\ p_pc' = "DnsHeader_decode"
    /\ p_out' = DnsHeader_decode(p_buf, p_pos)
    /\ UNCHANGED <<p_buf, p_pos, p_arg, headerVars, domainVars, recordVars, serverVars, farVars, loopVars>>

ParseQuestion ==
    /\ p_pc = "buffer"
    /\ p_pc' = "parse_question"
    /\ p_out' = parse_question(p_buf, p_pos)
    /\ UNCHANGED <<p_buf, p_pos, p_arg, headerVars, domainVars, recordVars, serverVars, farVars, loopVars>>

ParseQuestions ==
    /\ p_pc = "buffer"
    /\ p_pc' = "parse_questions"
    /\ p_out' = parse_questions(p_buf, p_arg)
    /\ UNCHANGED <<p_buf, p_pos, p_arg, headerVars, domainVars, recordVars, serverVars, farVars, loopVars>>

\* a 16-bit number to a QuestionType and, when that succeeds, back
Converted(to, back) ==
    IF to.outcome = "ok"
    THEN [outcome |-> "ok", value |-> to.value, back |-> back]
    ELSE [outcome |-> to.outcome, value |-> <<>>, back |-> 0]

\* the number taken as a u16: question_type.rs
ConvertU16 ==
    /\ p_pc = "number"
    /\ p_pc' = "u16"
    /\ LET to == QuestionType_try_from_u16(p_arg) IN
       p_out' = Converted(to, IF to.outcome = "ok" THEN QuestionType_to_u16(to.value) ELSE 0)
    /\ UNCHANGED <<p_buf, p_pos, p_arg, headerVars, domainVars, recordVars, serverVars, farVars, loopVars>>

\* the number taken as the bits of an i16: question.rs
ConvertI16 ==
    /\ p_pc = "number"
    /\ p_pc' = "i16"
    /\ LET to == IF IsNegativeI16(p_arg) THEN Err ELSE QuestionType_try_from(p_arg) IN
       p_out' = Converted(to, IF to.outcome = "ok" THEN QuestionType_to_int(to.value) ELSE 0)
    /\ UNCHANGED <<p_buf, p_pos, p_arg, headerVars, domainVars, recordVars, serverVars, farVars, loopVars>>

\* the number taken as the byte length of a label: the length field
\* Domain::encode writes for it
EncodeLength ==
    /\ p_pc = "number"
    /\ p_pc' = "label_length"
    /\ p_out' = LabelLenField(p_arg)
    /\ UNCHANGED <<p_buf, p_pos, p_arg, headerVars, domainVars, recordVars, serverVars, farVars, loopVars>>

\* Domain::encode(p_pos, empty map) of the name of a record, written at
\* p_pos and followed by the rest of the record
EncodeField ==
    /\ p_pc = "field"
    /\ LET r == Domain_encode(p_arg.labels, p_pos, EmptyMap) IN
       /\ r.outcome = "ok"
       /\ p_buf' = Zeros(p_pos) \o r.bytes \o p_buf
       /\ p_arg' = [p_arg EXCEPT !.end = p_pos + Len(r.bytes)]
       /\ p_out' = Ok(p_pos + Len(r.bytes), r.bytes)
    /\ p_pc' = "field_encoded"
    /\ UNCHANGED <<p_pos, headerVars, domainVars, recordVars, serverVars, farVars, loopVars>>

\* Domain::decode(p_buf, p_pos, empty map) of the name field of the record
DecodeField ==
    /\ p_pc = "field_encoded"
    /\ \E r \in Domain_decode(p_buf, p_pos, EmptyMap) :
         p_out' = [outcome |-> r.outcome, cursor |-> r.cursor, value |-> r.value]
    /\ p_pc' = "field_decoded"
    /\ UNCHANGED <<p_buf, p_pos, p_arg, headerVars, domainVars, recordVars, serverVars, farVars, loopVars>>

ReaderNext ==
    \/ ReadU8 \/ ReadU16 \/ ReadU32 \/ ReadString \/ ReadData
    \/ DecodeHeaderAt \/ ParseQuestion \/ ParseQuestions
    \/ ConvertU16 \/ ConvertI16
    \/ EncodeLength \/ EncodeField \/ DecodeField

-----------------------------------------------------------------------------
(* Names encoded at positions around and beyond the 14-bit offset range    *)

\* the lengths a message has reached when the next name is encoded
FarPositions == {16370, 16383, 16384, 65530}

FarIdle ==
    /\ f_pos = 0
    /\ f_map = EmptyMap
    /\ f_calls = <<>>

FarInit ==
    /\ f_pos \in FarPositions
    /\ f_map = EmptyMap
    /\ f_calls = <<>>

\* Domain::encode(pos, label_map) of one more name at the end of the message
EncodeFar ==
    /\ Len(f_calls) < MaxDomains
    /\ \A i \in 1..Len(f_calls) : f_calls[i].outcome = "ok"
    /\ \E labels \in Domains :
         LET r == Domain_encode(labels, f_pos, f_map) IN
         /\ f_calls' = Append(f_calls, [pos |-> f_pos, labels |-> labels, outcome |-> r.outcome,
                                        bytes |-> r.bytes, before |-> f_map])
         /\ f_map' = r.map
         /\ f_pos' = f_pos + Len(r.bytes)
    /\ UNCHANGED <<headerVars, domainVars, recordVars, serverVars, readerVars, loopVars>>

FarNext == EncodeFar

-----------------------------------------------------------------------------
(* A caller that keeps one label map over calls of Domain::encode, some of *)
(* which fail: names with a label too long to encode among the others.     *)
(* The state holds labels by name ("a", "b", "oversize") and the keys of   *)
(* the map as sequences of such names; LabelNamed gives the bytes.         *)

MaxCalls == 3

\* a label of 0xcfff bytes, the shortest Domain::encode refuses
OversizeLabel == LabelOfLen(LabelLimit)

LabelNamed(n) ==
    CASE n = "a" -> LabelA
      [] n = "b" -> LabelB
      [] n = "oversize" -> OversizeLabel

\* the labels of a name, as bytes
RECURSIVE NamedLabels(_)
NamedLabels(name) ==
    IF name = <<>> THEN <<>>
    ELSE << LabelNamed(name[1]) >> \o NamedLabels(Tail(name))

\* "a", "b.a", and three names with the oversize label: first, last, and
\* in the middle
RetryNames ==
    { <<"a">>, <<"b", "a">>,
      <<"oversize", "a">>, <<"a", "oversize">>,
      <<"b", "oversize", "a">> }

RetrySuffixes == { SubSeq(n, j, Len(n)) : n \in RetryNames, j \in 1..3 } \ { <<>> }

\* the key of the label map for a suffix: its labels joined with '.'
KeyOf(suffix) == Join(NamedLabels(suffix), 1)

\* the label map (keys as bytes) of a map held with keys by name, and back
MapOfNames(m) ==
    [k \in { KeyOf(s) : s \in DOMAIN m } |-> m[CHOOSE s \in DOMAIN m : KeyOf(s) = k]]

NamesOfMap(label_map) ==
    [s \in { t \in RetrySuffixes : KeyOf(t) \in DOMAIN label_map } |-> label_map[KeyOf(s)]]

RetryInit ==
    /\ f_pos \in StartPositions
    /\ f_map = EmptyMap
    /\ f_calls = <<>>

\* Domain::encode(f_pos, label_map) of one more name; after an error the
\* caller goes on with the same map at the same position
EncodeOrFail ==
    /\ Len(f_calls) < MaxCalls
    /\ \E name \in RetryNames :
         LET r == Domain_encode(NamedLabels(name), f_pos, MapOfNames(f_map)) IN
         /\ f_calls' = Append(f_calls, [pos |-> f_pos, labels |-> name, outcome |-> r.outcome,
                                        bytes |-> r.bytes, before |-> f_map,
                                        after |-> NamesOfMap(r.map)])
         /\ f_map' = NamesOfMap(r.map)
         /\ f_pos' = f_pos + Len(r.bytes)
    /\ UNCHANGED <<headerVars, domainVars, recordVars, serverVars, readerVars, loopVars>>

RetryNext == EncodeOrFail

-----------------------------------------------------------------------------
(* One call of Domain::decode on any buffer, one loop iteration per step   *)

MaxLoopLen == 6

\* 0x00, 0x01, 'a' and 0xc0 make null markers, lengths of 1 and 256,
\* labels, and pointers to the offsets 0, 1, 97 and 192
LoopBytes == {0, 1, 97, 192}

\* the positions decode is called at
LoopPositions == {0, 2}

\* label maps with entries at the offsets the pointers can name, also at
\* the offset of the pointer itself
LoopMaps ==
    { EmptyMap,
      MapInsert(EmptyMap, LabelA, 0),
      MapInsert(MapInsert(EmptyMap, <<49, 102, 46, 97>>, 0), LabelA, 1) }

LoopIdle ==
    /\ l_pc = "idle" /\ l_buf = <<>> /\ l_in = <<>> /\ l_cur = 0
    /\ l_offsets = <<>> /\ l_map = EmptyMap /\ l_out = <<>>

LoopInit ==
    /\ l_pc = "loop"
    /\ l_buf \in SeqsUpTo(LoopBytes, MaxLoopLen)
    /\ l_map \in LoopMaps
    /\ l_cur \in LoopPositions
    /\ l_in = [pos |-> l_cur, label_map |-> l_map]
    /\ l_offsets = <<>>
    /\ l_out = <<>>

\* LabelByte::from_byte(buf, current)? fails: the two bytes are not there
ClassFails ==
    /\ l_pc = "loop"
    /\ LET lb == LabelByte_from_byte(l_buf, l_cur) IN
       /\ lb.outcome # "ok"
       /\ l_pc' = lb.outcome
    /\ UNCHANGED <<l_buf, l_in, l_cur, l_offsets, l_map, l_out, headerVars, domainVars, recordVars, serverVars, readerVars, farVars>>

\* the arm LabelByte::Null: the map is updated, the domain ends
NullArm ==
    /\ l_pc = "loop"
    /\ LET lb == LabelByte_from_byte(l_buf, l_cur) IN
       /\ lb.outcome = "ok" /\ lb.value = "Null"
       /\ l_map' = UpdateMap(l_offsets, 1, FALSE, <<>>, l_map)
       /\ l_out' = [cursor |-> l_cur + 2, value |-> PairLabels(l_offsets, 1)]
       /\ l_pc' = "ok"
    /\ UNCHANGED <<l_buf, l_in, l_cur, l_offsets, headerVars, domainVars, recordVars, serverVars, readerVars, farVars>>

\* the arm LabelByte::Pointer: the offset is looked up in the map by value;
\* the domain ends with the labels of the suffix found, or the call fails
PointerArm ==
    /\ l_pc = "loop"
    /\ LET lb == LabelByte_from_byte(l_buf, l_cur)
           p == parse_u16(l_buf, l_cur)
           offset == p.value % 16384
           owners == FindByOffset(l_map, offset)
       IN  /\ lb.outcome = "ok" /\ lb.value = "Pointer"
           /\ IF owners = {}
              THEN /\ l_pc' = "err"
                   /\ UNCHANGED <<l_cur, l_map, l_out>>
              ELSE \E domain \in owners :
                     LET next == AfterPointer(p.cursor, offset) IN
                     /\ l_map' = UpdateMap(l_offsets, 1, TRUE, domain, l_map)
                     /\ l_cur' = next.current
                     /\ l_pc' = next.pc
                     /\ l_out' = [cursor |-> next.current,
                                  value |-> PairLabels(l_offsets, 1) \o Split(domain)]
    /\ UNCHANGED <<l_buf, l_in, l_offsets, headerVars, domainVars, recordVars, serverVars, readerVars, farVars>>

\* the arm LabelByte::Length: one label is parsed and the loop goes on
\* after it, or parse_string fails
LengthArm ==
    /\ l_pc = "loop"
    /\ LET lb == LabelByte_from_byte(l_buf, l_cur)
           s == parse_string(l_buf, l_cur)
       IN  /\ lb.outcome = "ok" /\ lb.value = "Length"
           /\ IF s.outcome # "ok"
              THEN /\ l_pc' = s.outcome
                   /\ UNCHANGED <<l_cur, l_offsets>>
              ELSE /\ l_offsets' = Append(l_offsets, <<s.value, l_cur>>)
                   /\ l_cur' = s.cursor
                   /\ l_pc' = "loop"
    /\ UNCHANGED <<l_buf, l_in, l_map, l_out, headerVars, domainVars, recordVars, serverVars, readerVars, farVars>>

LoopNext == ClassFails \/ NullArm \/ PointerArm \/ LengthArm

-----------------------------------------------------------------------------
(* Specifications: one per scenario, the other scenarios idle              *)

InitHeader == HeaderInit /\ DomainIdle /\ RecordsIdle /\ ServerIdle /\ ReaderIdle /\ FarIdle /\ LoopIdle

SpecHeader == InitHeader /\ [][HeaderNext]_vars

InitDomain == DomainInit /\ HeaderIdle /\ RecordsIdle /\ ServerIdle /\ ReaderIdle /\ FarIdle /\ LoopIdle

SpecDomain == InitDomain /\ [][DomainNext]_vars

InitDecode == DecodeInit /\ HeaderIdle /\ RecordsIdle /\ ServerIdle /\ ReaderIdle /\ FarIdle /\ LoopIdle

SpecDecode == InitDecode /\ [][DecodeNext]_vars

InitRecords == RecordsInit /\ HeaderIdle /\ DomainIdle /\ ServerIdle /\ ReaderIdle /\ FarIdle /\ LoopIdle

SpecRecords == InitRecords /\ [][RecordsNext]_vars

InitServer == ServerInit /\ HeaderIdle /\ DomainIdle /\ RecordsIdle /\ ReaderIdle /\ FarIdle /\ LoopIdle

SpecServer == InitServer /\ [][ServerNext]_vars

\* recv_from(&mut buf).await completes when a datagram waits in the socket:
\* the step that takes the head of the queue is the turn of the loop, and
\* the runtime does not leave the server task unpolled for ever
recv_from ==
    /\ s_pc = "recv"
    /\ s_inbox # <<>>
    /\ s_inbox' = Tail(s_inbox)

SpecServerFair == SpecServer /\ WF_s_inbox(recv_from)

InitReader == ReaderInit /\ HeaderIdle /\ DomainIdle /\ RecordsIdle /\ ServerIdle /\ FarIdle /\ LoopIdle

SpecReader == InitReader /\ [][ReaderNext]_vars

InitFar == FarInit /\ HeaderIdle /\ DomainIdle /\ RecordsIdle /\ ServerIdle /\ ReaderIdle /\ LoopIdle

SpecFar == InitFar /\ [][FarNext]_vars

InitRetry == RetryInit /\ HeaderIdle /\ DomainIdle /\ RecordsIdle /\ ServerIdle /\ ReaderIdle /\ LoopIdle

SpecRetry == InitRetry /\ [][RetryNext]_vars

InitLoop ==
    LoopInit /\ HeaderIdle /\ DomainIdle /\ RecordsIdle /\ ServerIdle /\ ReaderIdle /\ FarIdle

SpecLoop == InitLoop /\ [][LoopNext]_vars

\* a call that has started runs: the task that called Domain::decode is
\* scheduled until the call returns
SpecLoopFair == SpecLoop /\ WF_loopVars(LoopNext)

-----------------------------------------------------------------------------
(* Claims *)

\* C1: for every header with opcode <= 15, reserved <= 7 and response code
\* <= 15, decoding the encoded header at 0 returns the header with cursor 12;
\* and for every 12-byte buffer, write_header(parse_header(b)) is b.
C1_HeaderBijection ==
    /\ (h_pc = "encoded" => Len(h_bytes) = 12)
    /\ (h_pc = "decoded" /\ ValidHeader(h_in) =>
            /\ h_out.outcome = "ok"
            /\ h_out.cursor = 12
            /\ h_out.value = h_in)
    /\ (h_pc = "written" => h_back = h_bytes)

\* a valid header with every field set has been encoded and decoded, and a
\* raw buffer with both flag bytes non-zero has been parsed and written back
C1_Witness_Decoded ==
    /\ h_pc = "decoded"
    /\ ValidHeader(h_in)
    /\ h_in.opcode = 15 /\ h_in.reserved = 7 /\ h_in.response_code = 15
    /\ h_in.query_type = "Response" /\ h_in.recursion_available
    /\ h_in.packet_id = 43981


\* the number of trailing labels two names have in common
CommonSuffixLen(n1, n2) ==
    LET m == IF Len(n1) < Len(n2) THEN Len(n1) ELSE Len(n2)
        same(k) == SubSeq(n1, Len(n1) - k + 1, Len(n1)) = SubSeq(n2, Len(n2) - k + 1, Len(n2))
        ks == { k \in 0..m : same(k) }
    IN  CHOOSE k \in ks : \A j \in ks : j <= k

\* the bytes Domain::encode gives a name on its own, with an empty label map
AloneBytes(labels) == Domain_encode(labels, 0, EmptyMap).bytes

LastTwo(b) == U16From(b[Len(b) - 1], b[Len(b)])

\* C2: a domain of 2 or more labels of lowercase-hex characters, encoded at
\* position 0 with an empty label map and then decoded from position 0 of
\* the produced bytes, decodes to the original labels, with a fresh empty
\* map (d_share false) and with the map the encode call left (d_share true).
C2_DomainRoundTrip ==
    \A i \in 1..Len(d_dec) :
        (d_enc[i].at = 0 /\ d_dec[i].written = 1 /\ Len(d_names[i]) >= 2) =>
            /\ d_dec[i].outcome = "ok"
            /\ d_dec[i].value = d_names[i]
            /\ d_dec[i].cursor = Len(d_enc[i].bytes)

\* a two-label name was decoded with the encoder's map, the buffer holding
\* nothing but its encoding
C2_Witness_SharedMap ==
    /\ d_share /\ d_start = 0
    /\ Len(d_dec) = 1 /\ d_dec[1].written = 1
    /\ d_names[1] = <<Label1f, LabelA>>
    /\ d_dec[1].value = <<Label1f, LabelA>>

\* C3: the first two names written with one (initially empty) label map,
\* when they share k >= 1 trailing labels: the second encoding is the
\* labels before the shared suffix followed by a 2-byte pointer tagged 11
\* whose low 14 bits are the offset, inside the first encoding, from which
\* the shared suffix is written out in full to the end of the first name;
\* and the two encodings together are shorter than the two names encoded
\* alone.
C3_SuffixCompression ==
    Len(d_enc) >= 2 =>
        LET n1 == d_names[1]
            n2 == d_names[2]
            b1 == d_enc[1].bytes
            b2 == d_enc[2].bytes
            k == CommonSuffixLen(n1, n2)
            shared == SubSeq(n2, Len(n2) - k + 1, Len(n2))
            p == LastTwo(b2)
            t == p % 16384
        IN  k >= 1 =>
              /\ d_enc[2].at = d_start + Len(b1)
              /\ Len(b2) >= 2
              /\ Bits(p, 14, 2) = 3
              /\ d_enc[1].at <= t /\ t < d_enc[2].at
              /\ SubSeq(d_buf, t + 1, d_enc[2].at) = AloneBytes(shared)
              /\ SubSeq(b2, 1, Len(b2) - 2) = SubSeq(AloneBytes(n2), 1, Len(b2) - 2)
              /\ Len(b2) - 2 + Len(AloneBytes(shared)) = Len(AloneBytes(n2))
              /\ Len(b1) + Len(b2) < Len(AloneBytes(n1)) + Len(AloneBytes(n2))

\* "1f.a" at 12, then "b.a": the second is the label b and a pointer to the
\* a of the first
C3_Witness_Pointer ==
    /\ d_start = 12 /\ Len(d_enc) = 2
    /\ d_names[1] = <<Label1f, LabelA>>
    /\ d_names[2] = <<LabelB, LabelA>>
    /\ d_enc[2].bytes = <<0, 1, 98, 192, 16>>

\* C7: Domain::encode of google.com at position 0 with an empty label map
\* yields exactly 06 67 6f 6f 67 6c 65 03 63 6f 6d 00.
C7_GoogleComBytes ==
    \A i \in 1..Len(d_enc) :
        (d_names[i] = GoogleCom /\ d_enc[i].at = 0) =>
            d_enc[i].bytes = <<6, 103, 111, 111, 103, 108, 101, 3, 99, 111, 109, 0>>

\* what the code yields there: 16-bit length fields and a 16-bit null marker
C7_Witness_WideLengths ==
    /\ Len(d_enc) >= 1 /\ d_start = 0 /\ d_names[1] = GoogleCom
    /\ d_enc[1].bytes = <<0, 6, 103, 111, 111, 103, 108, 101, 0, 3, 99, 111, 109, 0, 0>>


\* C4: decoding front to back with one label map, a name that ends in a
\* pointer to the offset of a label decoded earlier in the buffer decodes
\* to its own labels followed by the labels from the pointed-to label to
\* the end of that earlier name.
C4_PointerResolution ==
    \A i \in 1..Len(d_dec) :
        d_enc[i].term = "pointer" =>
            /\ d_dec[i].outcome = "ok"
            /\ d_dec[i].value = d_names[i]

\* a pointer to the first occurrence of a name resolves
C4_Witness_Resolved ==
    /\ Len(d_dec) = 2
    /\ d_enc[2].term = "pointer"
    /\ d_names[2] = <<Label1f, LabelA>>
    /\ d_dec[2].outcome = "ok" /\ d_dec[2].value = <<Label1f, LabelA>>

\* a pointer to the second occurrence of a name written twice does not
C4_Witness_Unresolved ==
    /\ Len(d_dec) = 3
    /\ d_enc[3].term = "pointer"
    /\ d_names[1] = <<LabelA>> /\ d_names[2] = <<LabelA>> /\ d_names[3] = <<LabelA>>
    /\ d_dec[3].outcome = "err"

\* the offset of the length byte of label i in the wire form of a label set
RECURSIVE LengthByteOffset(_, _)
LengthByteOffset(labels, i) ==
    IF i = 1 THEN 0 ELSE LengthByteOffset(labels, i - 1) + 1 + Len(labels[i - 1])

GoogleComDomain == <<103, 111, 111, 103, 108, 101, 46, 99, 111, 109>>

GoogleComWire == <<6, 103, 111, 111, 103, 108, 101, 3, 99, 111, 109, 0>>

\* C5: DnsAnswerSet::encode with a declared count that differs from the
\* number of answers in the set returns an error and produces no bytes.
C5_CountMismatchFails ==
    (r_pc = "answers_encoded" /\ r_num # Len(r_in)) =>
        /\ r_out.outcome = "err"
        /\ r_out.bytes = <<>>

\* a set of two answers encoded with a declared count of one: an error,
\* not the first answer alone
C5_Witness_Mismatch ==
    /\ r_pc = "answers_encoded"
    /\ Len(r_in) = 2 /\ r_num = 1
    /\ r_out.outcome = "err"

\* C6: every message that message encoding produces carries a header
\* question count equal to the number of questions serialized after the
\* header, and encoding a message whose question_count differs from the
\* length of its question list fails instead of producing bytes.
C6_CountsMatchRecords ==
    r_pc \in {"message_encoded", "message_parsed"} =>
        /\ r_out.outcome = "ok" =>
              /\ Len(r_out.bytes) >= 12
              /\ U16From(r_out.bytes[5], r_out.bytes[6]) = Len(r_in.questions)
              /\ SubSeq(r_out.bytes, 13, Len(r_out.bytes)) = EncodeQuestions(r_in.questions).bytes
        /\ r_in.header.question_count # Len(r_in.questions) => r_out.outcome = "err"

\* a header that declares two questions over a list of one is encoded
C6_Witness_MismatchEncoded ==
    /\ r_pc = "message_encoded"
    /\ r_in.header.question_count = 2 /\ Len(r_in.questions) = 1
    /\ r_out.outcome = "ok"
    /\ U16From(r_out.bytes[5], r_out.bytes[6]) = 2

\* C8: LabelSet::encode emits for each label in order one length byte and
\* the label's bytes, then one 0x00, so the length is the sum of the label
\* lengths plus the number of labels plus 1; from_domain("google.com")
\* encodes to 06 67 6f 6f 67 6c 65 03 63 6f 6d 00, and parse_questions over
\* those bytes followed by a type and a class recovers google.com.
C8_LabelSetWire ==
    /\ (r_pc \in {"labels_encoded", "labels_parsed"} /\ r_out.outcome = "ok") =>
          LET labels == LabelSet_from_domain(r_in)
              n == Len(labels)
              bytes == r_out.bytes
          IN  /\ Len(bytes) = LengthByteOffset(labels, n + 1) + 1
              /\ LengthByteOffset(labels, n + 1) = (Len(r_in) - (n - 1)) + n
              /\ bytes[Len(bytes)] = 0
              /\ \A i \in 1..n :
                    LET at == LengthByteOffset(labels, i) IN
                    /\ bytes[at + 1] = Len(labels[i])
                    /\ SubSeq(bytes, at + 2, at + 1 + Len(labels[i])) = labels[i]
    /\ (r_pc \in {"labels_encoded", "labels_parsed"} /\ r_in = GoogleComDomain) =>
          r_out = BytesResult("ok", GoogleComWire)
    /\ (r_pc = "labels_parsed" /\ r_in = GoogleComDomain) =>
          /\ r_parsed.outcome = "ok"
          /\ Len(r_parsed.value) = 1
          /\ LabelSet_as_domain(r_parsed.value[1].name) = GoogleComDomain
          /\ QuestionType_to_int(r_parsed.value[1].qtype) = 1
          /\ r_parsed.value[1].class = 1

\* google.com has been encoded to the twelve bytes and parsed back
C8_Witness_GoogleParsed ==
    /\ r_pc = "labels_parsed"
    /\ r_in = GoogleComDomain
    /\ r_out.bytes = GoogleComWire
    /\ r_parsed.outcome = "ok"
    /\ r_parsed.value[1].name = GoogleCom

C10_LoopSurvivesBadDatagram ==
    \A i \in 1..Len(s_log) :
        s_log[i].outcome # "ok" =>
            /\ s_log[i].outcome = "err"
            /\ s_pc = "recv"

\* eleven bytes were received, run_until_stopped returned the error, and a
\* request sent afterwards waits in the socket
C10_Witness_Returned ==
    /\ Len(s_log) = 1 /\ Len(s_log[1].payload) = 11 /\ s_log[1].outcome = "err"
    /\ s_pc = "returned"
    /\ s_inbox # <<>>

\* the bytes a primitive reader is asked for: from p_pos, this many
SpanOf(name) ==
    CASE name = "parse_u8" -> 1
      [] name = "parse_u16" -> 2
      [] name = "parse_u32" -> 4
      [] name = "parse_data" -> p_arg
      [] name = "parse_string" ->
            IF p_pos + 2 > Len(p_buf) THEN 2
            ELSE 2 + U16From(p_buf[p_pos + 1], p_buf[p_pos + 2])

PrimitiveReaders == {"parse_u8", "parse_u16", "parse_u32", "parse_string", "parse_data"}

\* C12: each primitive reader, on any buffer and any offset, returns either
\* (offset + bytes consumed, value) or an error; when the span it is asked
\* for runs past the end of the buffer it returns an error and does not
\* panic.
C12_ReadersReturn ==
    p_pc \in PrimitiveReaders =>
        /\ p_out.outcome \in {"ok", "err"}
        /\ p_out.outcome = "ok" => p_out.cursor = p_pos + SpanOf(p_pc)
        /\ p_pos + SpanOf(p_pc) > Len(p_buf) => p_out.outcome = "err"

\* parse_u16 at offset 1 of a buffer of two bytes has panicked
C12_Witness_SlicePanics ==
    /\ p_pc = "parse_u16" /\ p_buf = <<0, 1>> /\ p_pos = 1
    /\ p_out.outcome = "panic"

\* C13: DnsHeader::decode, parse_question and parse_questions, on any
\* buffer and any count, return a success value or an error value and
\* never abort with an out-of-bounds access.
C13_DecodersTotal ==
    p_pc \in {"DnsHeader_decode", "parse_question", "parse_questions"} =>
        p_out.outcome \in {"ok", "err"}

\* C17: converting a 16-bit number to QuestionType succeeds exactly for
\* 1..16 and is an error for every other value, and converting the result
\* back gives the number; for the u16 and for the i16 conversions.
C17_SixteenKinds ==
    p_pc \in {"u16", "i16"} =>
        /\ p_out.outcome = "ok" <=> p_arg \in 1..16
        /\ p_out.outcome # "ok" => p_out.outcome = "err"
        /\ p_out.outcome = "ok" =>
              /\ p_out.value \in QuestionType
              /\ p_out.back = p_arg

\* 16 has become TXT and back 16 through the i16 conversions
C17_Witness_Txt ==
    /\ p_pc = "i16" /\ p_arg = 16
    /\ p_out.outcome = "ok" /\ p_out.value = "TXT" /\ p_out.back = 16

\* C11: every datagram a client sends to the running server is eventually
\* answered with a non-empty datagram sent to that client: a 12-byte zero
\* header, a header with one question, or 11 bytes that are no DNS message.
C11_EveryDatagramAnswered ==
    \A k \in 1..MaxDatagrams :
        (Len(s_log) + Len(s_inbox) >= k) ~>
            (/\ Len(s_log) >= k
             /\ s_log[k].sent
             /\ s_log[k].to = s_log[k].addr
             /\ Len(s_log[k].reply) > 0)

\* the 12 zero bytes and a request with one question have been answered
C11_Witness_Answered ==
    /\ Len(s_log) = 2
    /\ s_log[1].payload = Zeros(12) /\ s_log[1].sent /\ s_log[1].reply = Zeros(12)
    /\ s_log[2].sent /\ s_log[2].to = s_log[2].addr
    /\ Len(s_log[2].req.questions) = 1

\* C20: every reply the server sends for a decoded request has the
\* direction bit of its header set to response (QR = 1).
C20_ReplyIsResponse ==
    \A i \in 1..Len(s_log) :
        s_log[i].sent =>
            /\ Len(s_log[i].reply) >= 3
            /\ Bits(s_log[i].reply[3], 7, 1) = 1

\* C18: DnsAnswer::encode writes a 2-byte RDATA length equal to the number
\* of RDATA bytes it writes directly after it, for every RDATA size.
C18_RdataLength ==
    (r_pc = "answers_encoded" /\ r_out.outcome = "ok" /\ Len(r_in) = 1) =>
        LET data == r_in[1].data
            n == Len(r_out.bytes)
            at == n - Len(data) - 2
        IN  /\ SubSeq(r_out.bytes, at + 3, n) = data
            /\ U16From(r_out.bytes[at + 1], r_out.bytes[at + 2]) = Len(data)

\* an answer with four bytes of RDATA is encoded with a length field of 16
C18_Witness_Sixteen ==
    /\ r_pc = "answers_encoded" /\ r_out.outcome = "ok" /\ Len(r_in) = 1
    /\ r_in[1].data = <<127, 0, 0, 1>>
    /\ SubSeq(r_out.bytes, Len(r_out.bytes) - 5, Len(r_out.bytes)) = <<0, 16, 127, 0, 0, 1>>

\* C19: encoding a set of n questions and decoding n questions from
\* position 0 of the result gives the same questions in the same order,
\* each with its name, type and class.
C19_QuestionSetRoundTrip ==
    r_pc = "questions_parsed" =>
        /\ r_parsed.outcome = "ok"
        /\ r_parsed.value = r_in

\* a question of class 3 comes back with class 1
C19_Witness_ClassLost ==
    /\ r_pc = "questions_parsed"
    /\ r_in = << [name |-> <<Label1f, LabelA>>, qtype |-> "TXT", class |-> 3] >>
    /\ r_parsed.outcome = "ok"
    /\ r_parsed.value = << [name |-> <<Label1f, LabelA>>, qtype |-> "TXT", class |-> 1] >>

\* the values of a label map
Offsets(label_map) == { label_map[k] : k \in DOMAIN label_map }

\* the 14-bit offset of the pointer a written name ends in
PointerTarget(bytes) == U16From(bytes[Len(bytes) - 1], bytes[Len(bytes)]) % 16384

\* C15: across Domain::encode and Domain::decode calls that share one
\* label map, a suffix that is in the map stays in it with the offset it
\* has: a later occurrence of the suffix does not overwrite the offset.
C15_FirstOffsetKept ==
    [][ /\ \A k \in DOMAIN d_map : k \in DOMAIN d_map' /\ d_map'[k] = d_map[k]
        /\ \A k \in DOMAIN e_map : k \in DOMAIN e_map' /\ e_map'[k] = e_map[k] ]_vars

\* "a" was decoded twice in full and then encoded: the map holds its first
\* offset and the encoder wrote a pointer to it
C15_Witness_SecondOccurrence ==
    /\ Len(d_enc) = 3 /\ Len(d_dec) = 2
    /\ d_names = << <<LabelA>>, <<LabelA>>, <<LabelA>> >>
    /\ d_enc[1].term = "null" /\ d_enc[2].term = "null" /\ d_enc[3].term = "encoded"
    /\ d_dec[2].outcome = "ok"
    /\ d_map[LabelA] = d_enc[1].at
    /\ d_enc[3].bytes = U16Bytes(49152 + d_enc[1].at)

\* C16: Domain::decode returns an error whenever the name ends in a
\* pointer whose 14-bit offset is not the stored offset of a suffix in the
\* label map at that time: a pointer to the name's own labels, a forward
\* pointer, a pointer to the place of another pointer.
C16_UnknownPointerFails ==
    \A i \in 1..Len(d_dec) :
        (/\ d_enc[i].term \in {"pointer", "wild"}
         /\ PointerTarget(d_enc[i].bytes) \notin Offsets(d_dec[i].before)) =>
            d_dec[i].outcome = "err"

\* after "a" was decoded, "1f" followed by a pointer to its own offset fails
C16_Witness_OwnLabel ==
    /\ Len(d_dec) = 2
    /\ d_enc[2].term = "wild"
    /\ d_names[2] = <<Label1f>>
    /\ PointerTarget(d_enc[2].bytes) = d_enc[2].at
    /\ d_dec[1].outcome = "ok"
    /\ d_dec[2].before # EmptyMap
    /\ d_dec[2].outcome = "err"

\* C14: Domain::encode fails whenever an offset it would store in the
\* label map or write into a pointer exceeds 0x3FFF: the map never holds
\* such an offset, and the 14-bit field of a pointer is the offset of the
\* suffix it stands for, not a truncation of a larger one.
C14_OffsetsFit14Bits ==
    /\ \A k \in DOMAIN f_map : f_map[k] <= 16383
    /\ \A i \in 1..Len(f_calls) :
          LET c == f_calls[i]
              whole == Join(c.labels, 1)
          IN  (c.outcome = "ok" /\ whole \in DOMAIN c.before) =>
                  /\ c.before[whole] <= 16383
                  /\ PointerTarget(c.bytes) = c.before[whole]

\* "a" was encoded at 16384 and again after it: the second time as the
\* pointer c0 00
C14_Witness_Truncated ==
    /\ Len(f_calls) = 2
    /\ f_calls[1].pos = 16384 /\ f_calls[1].labels = <<LabelA>>
    /\ f_calls[2].labels = <<LabelA>>
    /\ f_calls[2].outcome = "ok"
    /\ f_calls[2].before[LabelA] = 16384
    /\ f_calls[2].bytes = <<192, 0>>

-----------------------------------------------------------------------------
\* C21: a message whose question and answer carry the default name of no
\* labels encodes to bytes that decode: the name of no labels is written as
\* a field that delimits itself (the terminator is written), so decoding
\* it returns no labels and the cursor directly after the field, and
\* consumes none of the type and class bytes that follow.
C21_ZeroLabelSelfDelimiting ==
    (p_pc = "field_decoded" /\ p_arg.labels = <<>>) =>
        /\ p_out.outcome = "ok"
        /\ p_out.value = <<>>
        /\ p_out.cursor = p_arg.end

\* the name of no labels at position 12 has taken no bytes, and decoding
\* there has read the type and class that follow as a label
C21_Witness_TypeReadAsLabel ==
    /\ p_pc = "field_decoded" /\ p_arg.labels = <<>> /\ p_pos = 12
    /\ p_arg.end = 12
    /\ p_out.outcome # "ok" \/ p_out.value # <<>>

\* C23: when a record set of n records is decoded, record k+1 is decoded
\* starting at exactly the cursor at which record k ended, for every n
\* (three and more included), so the records come back in buffer order.
C23_CursorThreaded ==
    (p_pc = "parse_questions" /\ p_buf = WireQuestions(ThreeQuestions)) =>
        /\ p_out.outcome = "ok"
        /\ p_out.value = SubSeq(ThreeQuestions, 1, p_arg)

\* two of the three questions have been parsed in order
C23_Witness_TwoInOrder ==
    /\ p_pc = "parse_questions" /\ p_buf = WireQuestions(ThreeQuestions) /\ p_arg = 2
    /\ p_out.outcome = "ok"
    /\ p_out.value = SubSeq(ThreeQuestions, 1, 2)

\* C25: for every label length L that Domain::encode accepts, the 16-bit
\* length field it writes has the value L, is classified by
\* LabelByte::from_byte as a length, and is accepted by parse_string, so
\* that the label decodes back with exactly L bytes; a length that cannot
\* be written this way is rejected by encode.
C25_LengthFieldFaithful ==
    /\ (p_pc = "label_length" /\ p_out.outcome = "ok") =>
          /\ p_out.value = p_arg
          /\ LabelByte_from_byte(U16Bytes(p_out.value), 0).value = "Length"
          /\ p_out.value <= StringLimit
          /\ p_arg <= MaxBufLen =>
                LET s == parse_string(U16Bytes(p_out.value) \o LabelOfLen(p_arg), 0) IN
                s.outcome = "ok" /\ Len(s.value) = p_arg
    /\ (p_pc = "field_decoded" /\ Len(p_arg.labels) = 1) =>
          (p_out.outcome = "ok" /\ p_out.value = p_arg.labels)

\* the length 4096 has been accepted and written as the field 0
C25_Witness_Bit12Cleared ==
    /\ p_pc = "label_length" /\ p_arg = 4096
    /\ p_out.outcome = "ok" /\ p_out.value = 0

-----------------------------------------------------------------------------
\* the first label number (from 1) whose suffix is a key of the map, one
\* past the last label when there is none
FirstKnownSuffix(labels, label_map) ==
    LET known == { j \in 1..Len(labels) : Join(labels, j) \in DOMAIN label_map } IN
    IF known = {} THEN Len(labels) + 1
    ELSE CHOOSE j \in known : \A i \in known : j <= i

\* C22: Domain::encode of n >= 1 labels with the label map M emits, where
\* k is the first label whose suffix labels[k..] joined by '.' is in M at
\* entry (none: k past the last label), exactly the labels before k as
\* length-prefixed labels, followed by one pointer to M[suffix k] when
\* there is such a k and by the null marker when there is none; never a
\* label after a pointer, two pointers, or a pointer and a null marker.
C22_LabelsThenPointerOrNull ==
    \A i \in 1..Len(d_enc) :
        LET labels == d_names[i]
            M == d_enc[i].before
            k == FirstKnownSuffix(labels, M)
            head == WireLabels(SubSeq(labels, 1, k - 1), 1)
        IN  d_enc[i].bytes =
               IF k <= Len(labels)
               THEN head \o U16Bytes(49152 + M[Join(labels, k)])
               ELSE head \o <<0, 0>>

\* "a" was in the map, at 4, when "b.a" was encoded: one label, then a
\* pointer
C22_Witness_HitAtSecond ==
    /\ d_start = 0 /\ Len(d_enc) = 2
    /\ d_names[1] = <<Label1f, LabelA>>
    /\ d_names[2] = <<LabelB, LabelA>>
    /\ FirstKnownSuffix(d_names[2], d_enc[2].before) = 2
    /\ d_enc[2].bytes = <<0, 1, 98, 192, 4>>

\* C29: domains encoded back to back from a start position with one
\* initially empty label map, then decoded front to back from the same
\* start position with another initially empty map: after each domain the
\* decoder's map equals the encoder's map after that domain (the same
\* suffix keys with the same offsets).
C29_DecoderMapEqualsEncoderMap ==
    ~d_share =>
        /\ \A i \in 1..Len(d_dec) : d_dec[i].outcome = "ok"
        /\ d_map = IF d_dec = <<>> THEN EmptyMap ELSE d_enc[Len(d_dec)].after

\* two names sharing a suffix were decoded with the decoder's own map,
\* which now holds the three suffixes the encoder's map holds
C29_Witness_TwoDecoded ==
    /\ ~d_share /\ d_start = 12
    /\ Len(d_dec) = 2
    /\ d_names = << <<Label1f, LabelA>>, <<LabelB, LabelA>> >>
    /\ d_map = d_enc[2].after
    /\ DOMAIN d_map = { <<49, 102, 46, 97>>, <<97>>, <<98, 46, 97>> }
    /\ d_map[<<98, 46, 97>>] = 21

\* the label number (from 1) of name i whose suffix is key, 0 when none
SuffixNumber(labels, key) ==
    LET js == { j \in 1..Len(labels) : Join(labels, j) = key } IN
    IF js = {} THEN 0 ELSE CHOOSE j \in js : TRUE

\* C30: domains encoded back to back with one label map, each at the end
\* of the previous encoding: no two suffixes of the map share an offset,
\* and every stored offset is the position in the buffer where the length
\* field of the suffix's first label was written, so the decoder's lookup
\* by offset has at most one match.
C30_OffsetsInjective ==
    /\ \A i \in 1..Len(d_enc) :
          d_enc[i].at = (IF i = 1 THEN d_start ELSE d_enc[i - 1].at + Len(d_enc[i - 1].bytes))
    /\ \A key \in DOMAIN e_map :
          /\ FindByOffset(e_map, e_map[key]) = {key}
          /\ \E i \in 1..Len(d_enc) :
                LET j == SuffixNumber(d_names[i], key)
                    o == e_map[key]
                IN  /\ j >= 1
                    /\ o = d_enc[i].at + Len(WireLabels(SubSeq(d_names[i], 1, j - 1), 1))
                    /\ o + 2 + Len(d_names[i][j]) <= d_enc[i].at + Len(d_enc[i].bytes)
                    /\ SubSeq(d_buf, o + 1, o + 2 + Len(d_names[i][j]))
                          = U16Bytes(Len(d_names[i][j])) \o d_names[i][j]

\* "1f.a" at 12 and "b.a" after it: three suffixes at three offsets
C30_Witness_ThreeOffsets ==
    /\ d_start = 12 /\ Len(d_enc) = 2
    /\ d_names = << <<Label1f, LabelA>>, <<LabelB, LabelA>> >>
    /\ e_map[<<49, 102, 46, 97>>] = 12
    /\ e_map[<<97>>] = 16
    /\ e_map[<<98, 46, 97>>] = 21

-----------------------------------------------------------------------------
\* whenever a name a.b.c is a key, b.c and c are keys: for every '.' of a
\* key, what follows it is a key
SuffixClosed(label_map) ==
    \A key \in DOMAIN label_map :
        \A i \in 1..Len(key) :
            key[i] = Dot => SubSeq(key, i + 1, Len(key)) \in DOMAIN label_map

\* C24: the label map is suffix-closed after every successful
\* Domain::encode (or Domain::decode) call of a sequence of calls that
\* share one map.
C24_MapSuffixClosed ==
    \A i \in 1..Len(f_calls) :
        f_calls[i].outcome = "ok" => SuffixClosed(MapOfNames(f_calls[i].after))

\* "b.a" was encoded into an empty map, which then holds "b.a" and "a"
C24_Witness_Closed ==
    /\ Len(f_calls) = 1 /\ f_calls[1].outcome = "ok"
    /\ f_calls[1].labels = <<"b", "a">>
    /\ DOMAIN MapOfNames(f_map) = { <<98, 46, 97>>, <<97>> }
    /\ SuffixClosed(MapOfNames(f_map))

\* C28: when Domain::encode returns an error, the label map is exactly
\* what it was on entry.
C28_FailedEncodeKeepsMap ==
    \A i \in 1..Len(f_calls) :
        f_calls[i].outcome = "err" =>
            MapOfNames(f_calls[i].after) = MapOfNames(f_calls[i].before)

\* the call failed on the oversize label after "a" was written: both
\* suffixes are in the map
C28_Witness_Registered ==
    /\ Len(f_calls) = 1 /\ f_calls[1].outcome = "err"
    /\ f_calls[1].labels = <<"a", "oversize">>
    /\ f_calls[1].before = EmptyMap
    /\ Cardinality(DOMAIN MapOfNames(f_map)) = 2

\* C27: when Domain::decode ends without a name (a truncated buffer, a
\* label length above the limit, a label that is not UTF-8, a pointer to
\* an offset no suffix is registered at), the label map is exactly what
\* it was on entry: the labels read so far are registered only when the
\* domain ends with a null marker or a resolved pointer.
C27_FailedDecodeKeepsMap ==
    (d_dec # <<>> /\ d_dec[Len(d_dec)].outcome # "ok") =>
        d_map = d_dec[Len(d_dec)].before

\* "a" was decoded; then the labels a and 1f were read before a pointer to
\* the name's own start failed to resolve, and the map still holds a alone
C27_Witness_LabelsReadThenError ==
    /\ d_start = 0 /\ Len(d_dec) = 2
    /\ d_enc[2].term = "wild" /\ d_names[2] = <<LabelA, Label1f>>
    /\ d_dec[2].outcome = "err"
    /\ DOMAIN d_map = { <<97>> }

\* one step of the loop of Domain::decode: an iteration that stays in the
\* loop has moved the cursor on by at least 3 bytes, within the buffer;
\* an iteration that reads a pointer ends the call, with the cursor just
\* after the pointer when it is resolved (through the map)
IterationAdvances ==
    /\ (l_pc = "loop" /\ l_pc' = "loop") =>
          (l_cur' >= l_cur + 3 /\ l_cur' <= Len(l_buf))
    /\ (l_pc = "loop" /\ LabelByte_from_byte(l_buf, l_cur) = Ok(l_cur, "Pointer")) =>
          /\ l_pc' \in {"ok", "err"}
          /\ l_pc' = "ok" =>
                /\ l_out'.cursor = l_cur + 2
                /\ \E domain \in FindByOffset(l_map, U16From(l_buf[l_cur + 1], l_buf[l_cur + 2]) % 16384) :
                      l_out'.value = PairLabels(l_offsets, 1) \o Split(domain)

\* C26: Domain::decode terminates on every buffer and every label map,
\* also when pointers refer to themselves or to each other: each loop
\* iteration ends the domain (null or pointer), fails, or advances the
\* cursor by at least 3 bytes, and pointers are resolved through the map
\* and never followed in the buffer.
C26_DecodeTerminates ==
    /\ <>(l_pc # "loop")
    /\ [][IterationAdvances]_vars

\* a pointer at offset 0 that names offset 0, where the map has "a": the
\* call has ended with the name a and the cursor 2
C26_Witness_SelfPointer ==
    /\ l_pc = "ok" /\ l_buf = <<192, 0>> /\ l_in.pos = 0
    /\ l_in.label_map = MapInsert(EmptyMap, LabelA, 0)
    /\ l_out = [cursor |-> 2, value |-> <<LabelA>>]

=============================================================================
